---- MODULE Spec2Model ----
(***************************************************************************)
(* A model of almirah: the Specification engine (build_path, extract_tags, *)
(* validate_path), the Layout indexing and query operations and the        *)
(* identity cache of uniquified classes.                                    *)
(*                                                                          *)
(* Python strings are TLA+ strings, read character by character with Len,  *)
(* SubSeq and \o.  Python values that may be a str, an int or None are      *)
(* records [t, s]; the outcome of a call is a record [kind, val].           *)
(***************************************************************************)
EXTENDS Naturals, Sequences, FiniteSets, TLC

(***************************************************************************)
(* Python values and call outcomes                                          *)
(***************************************************************************)

PyStr(s) == [t |-> "str", s |-> s]

Returned(v) == [kind |-> "return", val |-> v]

None == [kind |-> "None", val |-> ""]

Raised(exc) == [kind |-> "raise", val |-> exc]

(***************************************************************************)
(* Characters and substrings                                                *)
(***************************************************************************)

Ch(s, i) == SubSeq(s, i, i)

\* The characters the regular expression class \w (and \d within it) accepts.
WordChars ==
  { "a", "b", "c", "d", "e", "f", "g", "h", "i", "j", "k", "l", "m",
    "n", "o", "p", "q", "r", "s", "t", "u", "v", "w", "x", "y", "z",
    "A", "B", "C", "D", "E", "F", "G", "H", "I", "J", "K", "L", "M",
    "N", "O", "P", "Q", "R", "S", "T", "U", "V", "W", "X", "Y", "Z",
    "0", "1", "2", "3", "4", "5", "6", "7", "8", "9", "_" }

Digits == { "0", "1", "2", "3", "4", "5", "6", "7", "8", "9" }

IsWord(c) == c \in WordChars

StartsWithAt(s, i, sub) ==
  /\ i + Len(sub) - 1 <= Len(s)
  /\ SubSeq(s, i, i + Len(sub) - 1) = sub

\* str.startswith
StartsWith(s, sub) == StartsWithAt(s, 1, sub)

SetMax(S) == CHOOSE x \in S : \A y \in S : y <= x

SetMin(S) == CHOOSE x \in S : \A y \in S : x <= y

\* The least position of a set of positions; 0 when there is none.
FirstOf(S) == IF S = {} THEN 0 ELSE SetMin(S)

\* str.find from position i (1-based); 0 when sub does not occur.
FindFrom(s, sub, i) ==
  FirstOf({ k \in i..(Len(s) + 1 - Len(sub)) : StartsWithAt(s, k, sub) })

Contains(s, sub) == FindFrom(s, sub, 1) # 0

\* str.replace(old, new) for a non-empty old: every non-overlapping
\* occurrence, left to right (k: the next occurrence from i).
RECURSIVE ReplaceFrom(_, _, _, _)
ReplaceNext(s, old, new, i, k) ==
  IF k = 0 THEN SubSeq(s, i, Len(s))
  ELSE SubSeq(s, i, k - 1) \o new \o ReplaceFrom(s, old, new, k + Len(old))

ReplaceFrom(s, old, new, i) == ReplaceNext(s, old, new, i, FindFrom(s, old, i))

Replace(s, old, new) == ReplaceFrom(s, old, new, 1)

\* The end (exclusive) of the longest run of characters of set cls from i.
RunEnd(s, i, cls) ==
  IF i > Len(s) THEN i
  ELSE SetMin({ k \in i..(Len(s) + 1) : k = Len(s) + 1 \/ Ch(s, k) \notin cls })

\* str.split(sep) for a one-character separator: "" splits to <<"">>.
\* (k: the next separator from i).
RECURSIVE SplitFrom(_, _, _)
SplitNext(s, sep, i, k) ==
  IF k = 0 THEN <<SubSeq(s, i, Len(s))>>
  ELSE <<SubSeq(s, i, k - 1)>> \o SplitFrom(s, sep, k + 1)

SplitFrom(s, sep, i) == SplitNext(s, sep, i, FindFrom(s, sep, i))

Split(s, sep) == SplitFrom(s, sep, 1)

SeqRange(q) == { q[i] : i \in 1..Len(q) }

(***************************************************************************)
(* _TAG_PATTERN_TEMPLATE:                                                   *)
(*   ({([\w\d]*?)(?:<([^>]+)>)?(?:\|((?:\.?[\w])+))?\})                      *)
(***************************************************************************)

NoMatch == [ok |-> FALSE, end |-> 0, subpat |-> "", name |-> "",
            valid_vals |-> "", default |-> ""]

\* ((?:\.?[\w])+) right before the closing brace: a non-empty run of word
\* characters and dots in which every dot is followed by a word character.
DefaultShape(d) ==
  /\ Len(d) > 0
  /\ IsWord(Ch(d, Len(d)))
  /\ ~Contains(d, "..")

\* The token pattern from position i, stage by stage; the value each stage
\* has matched so far is handed to the next.  k: the end of the name
\* ([\w\d]*?, which must run up to "<", "|" or "}").
TagMatchEnd(s, i, k, valid_vals, default, k3) ==
  IF k3 <= Len(s) /\ Ch(s, k3) = "}"
  THEN [ok |-> TRUE, end |-> k3, subpat |-> SubSeq(s, i, k3),
        name |-> SubSeq(s, i + 1, k - 1), valid_vals |-> valid_vals,
        default |-> default]
  ELSE NoMatch

\* (?:\|((?:\.?[\w])+))? at k2, e the end of the run of word characters and dots
TagMatchDefault(s, i, k, valid_vals, k2, e) ==
  IF k2 <= Len(s) /\ Ch(s, k2) = "|" /\ DefaultShape(SubSeq(s, k2 + 1, e - 1))
  THEN TagMatchEnd(s, i, k, valid_vals, SubSeq(s, k2 + 1, e - 1), e)
  ELSE TagMatchEnd(s, i, k, valid_vals, "", k2)

TagMatchAfterValid(s, i, k, valid_vals, k2) ==
  TagMatchDefault(s, i, k, valid_vals, k2, RunEnd(s, k2 + 1, WordChars \cup {"."}))

\* (?:<([^>]+)>)? at k, gt the first ">" after it
TagMatchValid(s, i, k, gt) ==
  IF k <= Len(s) /\ Ch(s, k) = "<" /\ gt >= k + 2
  THEN TagMatchAfterValid(s, i, k, SubSeq(s, k + 1, gt - 1), gt + 1)
  ELSE TagMatchAfterValid(s, i, k, "", k)

TagMatchName(s, i, k) == TagMatchValid(s, i, k, FindFrom(s, ">", k + 1))

\* The match of the token pattern that starts at position i, if any.
TagPatternMatchAt(s, i) ==
  IF i > Len(s) \/ Ch(s, i) # "{" THEN NoMatch
  ELSE TagMatchName(s, i, RunEnd(s, i + 1, WordChars))

\* _TAG_PATTERN_TEMPLATE.findall(pattern): the non-overlapping matches, left
\* to right, each a tuple (subpat, name, valid_vals, default).
\* (b: the next "{" from i, where alone a match can start.)
RECURSIVE TagPatternFindallFrom(_, _)
TagPatternFindallStep(s, b, m) ==
  IF m.ok THEN <<m>> \o TagPatternFindallFrom(s, m.end + 1)
  ELSE TagPatternFindallFrom(s, b + 1)

TagPatternFindallNext(s, b) ==
  IF b = 0 THEN <<>> ELSE TagPatternFindallStep(s, b, TagPatternMatchAt(s, b))

TagPatternFindallFrom(s, i) == TagPatternFindallNext(s, FindFrom(s, "{", i))

TagPatternFindall(pattern) == TagPatternFindallFrom(pattern, 1)

\* re.findall(r"(\[.*?\])", path): from each "[" (b: the next one from i) to
\* the nearest "]" after it (j: its position, 0 when there is none).
RECURSIVE OptionalPatternsFrom(_, _)
OptionalPatternsStep(s, b, j) ==
  IF j = 0 THEN <<>>
  ELSE <<SubSeq(s, b, j)>> \o OptionalPatternsFrom(s, j + 1)

OptionalPatternsNext(s, b) ==
  IF b = 0 THEN <<>> ELSE OptionalPatternsStep(s, b, FindFrom(s, "]", b + 1))

OptionalPatternsFrom(s, i) == OptionalPatternsNext(s, FindFrom(s, "[", i))

OptionalPatterns(path) == OptionalPatternsFrom(path, 1)

\* re.findall(r"\{(.*?)\}", op): the text between each "{" (b: the next one
\* from i) and the nearest "}" after it (j: its position, 0 when there is
\* none).
RECURSIVE BraceContentsFrom(_, _)
BraceContentsStep(s, b, j) ==
  IF j = 0 THEN <<>>
  ELSE <<SubSeq(s, b + 1, j - 1)>> \o BraceContentsFrom(s, j + 1)

BraceContentsNext(s, b) ==
  IF b = 0 THEN <<>> ELSE BraceContentsStep(s, b, FindFrom(s, "}", b + 1))

BraceContentsFrom(s, i) == BraceContentsNext(s, FindFrom(s, "{", i))

BraceContents(op) == BraceContentsFrom(op, 1)

(***************************************************************************)
(* string.Formatter().parse and str.format_map                              *)
(***************************************************************************)

ParseError == [err |-> TRUE, items |-> <<>>]

ParseOk(items) == [err |-> FALSE, items |-> items]

\* The first "{" or "}" at or after position i; 0 when there is none.
NextBrace(s, i) == FirstOf({ k \in i..Len(s) : Ch(s, k) \in {"{", "}"} })

\* parse_field: the position of the "}" that ends the field name that starts
\* at position j; 0 for "unexpected '{' in field name" and for "expected '}'
\* before end of string".  A "[" skips to the next "]" (r: its position).
\* Templates here hold no ":" and no "!".
\* (c: the first "{", "}" or "[" from j.)
RECURSIVE FieldEnd(_, _)
FieldEndBracket(s, r) == IF r = 0 THEN 0 ELSE FieldEnd(s, r)

FieldEndAt(s, c) ==
  IF c = 0 THEN 0
  ELSE IF Ch(s, c) = "{" THEN 0
  ELSE IF Ch(s, c) = "}" THEN c
  ELSE FieldEndBracket(s, FindFrom(s, "]", c + 1))

FieldEnd(s, j) ==
  FieldEndAt(s, FirstOf({ k \in j..Len(s) : Ch(s, k) \in {"{", "}", "["} }))

\* One tuple of Formatter().parse in front of the tuples of the rest.
ParseCons(item, rest) ==
  IF rest.err THEN ParseError ELSE ParseOk(<<item>> \o rest.items)

\* The tuples Formatter().parse yields from position i: the literal text and
\* the field name after it (has = FALSE: the field name is None).  b: the
\* next brace; j: the end of the field that starts at b.
RECURSIVE FormatterParseFrom(_, _)
FormatterParseField(s, i, b, j) ==
  IF j = 0 THEN ParseError
  ELSE ParseCons([lit |-> SubSeq(s, i, b - 1), has |-> TRUE,
                  field |-> SubSeq(s, b + 1, j - 1)],
                 FormatterParseFrom(s, j + 1))

FormatterParseBrace(s, i, b) ==
  IF b = 0
  THEN ParseOk(<<[lit |-> SubSeq(s, i, Len(s)), has |-> FALSE, field |-> ""]>>)
  ELSE IF Ch(s, b) = "}" /\ (b = Len(s) \/ Ch(s, b + 1) # "}") THEN ParseError
  ELSE IF Ch(s, b) = "{" /\ b = Len(s) THEN ParseError
  ELSE IF Ch(s, b + 1) = Ch(s, b)
  THEN ParseCons([lit |-> SubSeq(s, i, b), has |-> FALSE, field |-> ""],
                 FormatterParseFrom(s, b + 2))
  ELSE FormatterParseField(s, i, b, FieldEnd(s, b + 1))

FormatterParseFrom(s, i) ==
  IF i > Len(s) THEN ParseOk(<<>>)
  ELSE FormatterParseBrace(s, i, NextBrace(s, i))

FormatterParse(path) == FormatterParseFrom(path, 1)

\* A field name format_map reads as a positional index: empty or all digits.
IsPositional(field) == RunEnd(field, 1, Digits) = Len(field) + 1

\* str.format_map over parsed items whose fields are all keys of tags.
RECURSIVE FormatItems(_, _)
FormatItem(it, tags) == it.lit \o (IF it.has THEN tags[it.field].s ELSE "")

FormatItems(items, tags) ==
  IF items = <<>> THEN ""
  ELSE FormatItem(Head(items), tags) \o FormatItems(Tail(items), tags)

(***************************************************************************)
(* Specification.build_path                                                 *)
(***************************************************************************)

PyInt(s) == [t |-> "int", s |-> s]

PyNone == [t |-> "none", s |-> "None"]

\* Python truthiness of a value.
Truthy(v) ==
  \/ v.t = "str" /\ v.s # ""
  \/ v.t = "int" /\ v.s # "0"

\* v == 0
IsZero(v) == v.t = "int" /\ v.s = "0"

Restrict(f, S) == [k \in S |-> f[k]]

\* A build_path that drops every falsy value, zero included.
RemoveFalsy(tags) == Restrict(tags, { k \in DOMAIN tags : Truthy(tags[k]) })

\* tags = {k: v for k, v in tags.items() if v or v == 0}
RemoveNone(tags) ==
  Restrict(tags, { k \in DOMAIN tags : Truthy(tags[k]) \/ IsZero(tags[k]) })

\* A build_path that leaves the extension tag as supplied.
KeepExtension(tags) == tags

\* tags["extension"] = ext if ext.startswith(".") else "." + ext
NormalizeExtension(tags) ==
  IF "extension" \notin DOMAIN tags THEN tags
  ELSE LET ext == tags["extension"].s
       IN [tags EXCEPT !["extension"] =
             PyStr(IF StartsWith(ext, ".") THEN ext ELSE "." \o ext)]

\* value in valid, for a list of strings
InList(v, valid) == v.t = "str" /\ v.s \in SeqRange(valid)

\* A build_path whose strict mode rejects nothing.
NeverReject(strict, tags_copy, matches) == FALSE

\* if strict and set(tags_copy.keys()) - set([t[1] for t in matches]): continue
StrictReject(strict, tags_copy, matches) ==
  strict /\ (DOMAIN tags_copy) \ { m.name : m \in SeqRange(matches) } # {}

\* if name not in tags_copy and default: tags_copy[name] = default
FillDefault(m, tags_copy) ==
  IF m.name \notin DOMAIN tags_copy /\ m.default # ""
  THEN tags_copy @@ (m.name :> PyStr(m.default))
  ELSE tags_copy

\* path = path.replace(subpat, "{%s}" % name)
Simplify(path, m) == Replace(path, m.subpat, "{" \o m.name \o "}")

\* One iteration of the loop over the tokens of a template: validates the
\* supplied value, fills in the default and simplifies the token of path to
\* {name}.  A supplied value that is not in valid takes the continue of the
\* token loop.
FillToken(path, tags_copy, m, valid) ==
  IF /\ Len(valid) > 0
     /\ m.name \in DOMAIN tags_copy
     /\ ~InList(tags_copy[m.name], valid)
  THEN [err |-> "", path |-> path, tags |-> tags_copy]
  ELSE IF Len(valid) > 0 /\ m.default # "" /\ m.default \notin SeqRange(valid)
  THEN [err |-> "ValueError", path |-> path, tags |-> FillDefault(m, tags_copy)]
  ELSE [err |-> "", path |-> Simplify(path, m), tags |-> FillDefault(m, tags_copy)]

\* The loop from token i on, filled: path and tags_copy as the iterations
\* before left them; a raise ends the loop.
RECURSIVE FillTokensFrom(_, _, _)
FillTokensFrom(matches, i, filled) ==
  IF i > Len(matches) \/ filled.err # "" THEN filled
  ELSE FillTokensFrom(matches, i + 1,
                      FillToken(filled.path, filled.tags, matches[i],
                                Split(matches[i].valid_vals, "|")))

FillTokens(matches, i, path, tags_copy) ==
  FillTokensFrom(matches, i, [err |-> "", path |-> path, tags |-> tags_copy])

\* path.replace(op, op[1:-1]) if optional_tag in tags_copy.keys()
\* else path.replace(op, "")
KeepOrRemove(path, op, optional_tag, tags_copy) ==
  IF optional_tag \in DOMAIN tags_copy
  THEN Replace(path, op, SubSeq(op, 2, Len(op) - 1))
  ELSE Replace(path, op, "")

\* The loop over the optional (bracketed) segments of the simplified path;
\* found: re.findall(r"\{(.*?)\}", op), whose element [0] is read.
KeepOrRemoveStep(op, path, tags_copy, found) ==
  IF found = <<>> THEN [err |-> "IndexError", path |-> path]
  ELSE [err |-> "", path |-> KeepOrRemove(path, op, found[1], tags_copy)]

\* (kept: path as the iterations before left it; a raise ends the loop.)
RECURSIVE KeepOrRemoveFrom(_, _, _, _)
KeepOrRemoveFrom(ops, i, kept, tags_copy) ==
  IF i > Len(ops) \/ kept.err # "" THEN kept
  ELSE KeepOrRemoveFrom(ops, i + 1,
                        KeepOrRemoveStep(ops[i], kept.path, tags_copy,
                                         BraceContents(ops[i])),
                        tags_copy)

KeepOrRemoveOptional(ops, i, path, tags_copy) ==
  KeepOrRemoveFrom(ops, i, [err |-> "", path |-> path], tags_copy)

\* if set(fields) - set(tags_copy.keys()): continue
FieldsMissing(items, tags_copy) ==
  \E n \in 1..Len(items) :
    ~items[n].has \/ items[n].field \notin DOMAIN tags_copy

Reject == [kind |-> "reject", val |-> ""]

\* path = path.format_map(tags_copy); return path
FillFields(parsed, tags_copy) ==
  IF parsed.err THEN Raised("ValueError")
  ELSE IF FieldsMissing(parsed.items, tags_copy) THEN Reject
  ELSE IF \E n \in 1..Len(parsed.items) : IsPositional(parsed.items[n].field)
  THEN Raised("ValueError")
  ELSE Returned(FormatItems(parsed.items, tags_copy))

AfterOptional(kept, tags_copy) ==
  IF kept.err # "" THEN Raised(kept.err)
  ELSE FillFields(FormatterParse(kept.path), tags_copy)

AfterTokens(filled) ==
  IF filled.err # "" THEN Raised(filled.err)
  ELSE AfterOptional(KeepOrRemoveOptional(OptionalPatterns(filled.path), 1,
                                          filled.path, filled.tags),
                     filled.tags)

AfterFindall(pattern, strict, tags, matches) ==
  IF StrictReject(strict, tags, matches) THEN Reject
  ELSE AfterTokens(FillTokens(matches, 1, pattern, tags))

\* One iteration of the loop over path_patterns: the template is rejected
\* (continue), the path is returned, or the call raises.
TryPattern(pattern, strict, tags) ==
  AfterFindall(pattern, strict, tags, TagPatternFindall(pattern))

\* A build_path that prefers the last template that is not rejected.
LastMatch(path_patterns, i, strict, tags) ==
  LET R == { n \in i..Len(path_patterns) :
               TryPattern(path_patterns[n], strict, tags).kind # "reject" }
  IN IF R = {} THEN None ELSE TryPattern(path_patterns[SetMax(R)], strict, tags)

\* The tags one iteration of the loop over path_patterns leaves in
\* tags_copy: those the token loop filled, unless the strict check skipped
\* the template.
TagsCopyAfter(pattern, strict, tags) ==
  IF StrictReject(strict, tags, TagPatternFindall(pattern)) THEN tags
  ELSE FillTokens(TagPatternFindall(pattern), 1, pattern, tags).tags

\* A build_path that works on tags itself instead of tags_copy: what a
\* rejected template filled in is seen by the templates after it.
RECURSIVE CarryMatch(_, _, _, _)
CarryMatch(path_patterns, i, strict, tags) ==
  IF i > Len(path_patterns) THEN None
  ELSE IF TryPattern(path_patterns[i], strict, tags).kind = "reject"
  THEN CarryMatch(path_patterns, i + 1, strict,
                  TagsCopyAfter(path_patterns[i], strict, tags))
  ELSE TryPattern(path_patterns[i], strict, tags)

\* for pattern in path_patterns: ... return path; return None
RECURSIVE FirstMatch(_, _, _, _)
FirstMatchStep(path_patterns, i, strict, tags, r) ==
  IF r.kind = "reject"
  THEN FirstMatch(path_patterns, i + 1, strict, tags)
  ELSE r

FirstMatch(path_patterns, i, strict, tags) ==
  IF i > Len(path_patterns) THEN None
  ELSE FirstMatchStep(path_patterns, i, strict, tags,
                      TryPattern(path_patterns[i], strict, tags))

BuildFrom(details, strict, kept) ==
  IF "extension" \in DOMAIN kept /\ kept["extension"].t # "str"
  THEN Raised("AttributeError")
  ELSE FirstMatch(details.path_patterns, 1, strict, NormalizeExtension(kept))

build_path(details, strict, tags) == BuildFrom(details, strict, RemoveNone(tags))

(***************************************************************************)
(* Specification.extract_tags and Specification.validate_path               *)
(*                                                                          *)
(* A tag definition's regular expression has the shape                      *)
(*     pre ( gpre [cls]+ ) post        or, anchored,   ... post $           *)
(* with pre, gpre and post literal text and cls a character class: the one  *)
(* capture group findall reports.                                           *)
(***************************************************************************)

AlNum == WordChars \ {"_"}

WordDot == WordChars \cup {"."}

\* The capture of the match of pat that starts at position i: the class run
\* (from r, at most to e) is greedy and backtracks until post (and the anchor)
\* match; ends: where the group may end.
ReGroupEnds(pat, s, r, e) ==
  { n \in (r + 1)..e :
      /\ StartsWithAt(s, n, pat.post)
      /\ pat.anchored => n + Len(pat.post) = Len(s) + 1 }

ReCapture(s, g, ends) ==
  IF ends = {} THEN [ok |-> FALSE, val |-> ""]
  ELSE [ok |-> TRUE, val |-> SubSeq(s, g, SetMax(ends) - 1)]

ReGroupAt(pat, s, g, r) ==
  ReCapture(s, g, ReGroupEnds(pat, s, r, RunEnd(s, r, pat.cls)))

ReMatchAt(pat, s, i) ==
  IF /\ StartsWithAt(s, i, pat.pre)
     /\ StartsWithAt(s, i + Len(pat.pre), pat.gpre)
  THEN ReGroupAt(pat, s, i + Len(pat.pre), i + Len(pat.pre) + Len(pat.gpre))
  ELSE [ok |-> FALSE, val |-> ""]

\* re.findall(pattern, path)[0], the first (leftmost) match; ok = FALSE when
\* findall returns an empty list.
ReFirstAt(pat, s, i) ==
  IF i = 0 THEN [ok |-> FALSE, val |-> ""] ELSE ReMatchAt(pat, s, i)

\* An extract_tags that reads the match that starts last.
ReLast(pat, s) ==
  ReFirstAt(pat, s,
            IF { i \in 1..Len(s) : ReMatchAt(pat, s, i).ok } = {} THEN 0
            ELSE SetMax({ i \in 1..Len(s) : ReMatchAt(pat, s, i).ok }))

ReFirst(pat, s) ==
  ReFirstAt(pat, s, FirstOf({ i \in 1..Len(s) : ReMatchAt(pat, s, i).ok }))

EmptyTags == [k \in {} |-> PyNone]

\* t[tag["name"]] = val[0]
SetItem(t, k, v) == [x \in (DOMAIN t) \cup {k} |-> IF x = k THEN v ELSE t[x]]

\* val = re.findall(tag["pattern"], path); if val: t[tag["name"]] = val[0]
RECURSIVE ExtractFrom(_, _, _, _)
ExtractOne(tagdefs, i, path, t, val) ==
  ExtractFrom(tagdefs, i + 1, path,
              IF val.ok THEN SetItem(t, tagdefs[i].name, PyStr(val.val)) ELSE t)

ExtractFrom(tagdefs, i, path, t) ==
  IF i > Len(tagdefs) THEN t
  ELSE ExtractOne(tagdefs, i, path, t, ReFirst(tagdefs[i].pattern, path))

extract_tags(details, path) == ExtractFrom(details.tags, 1, path, EmptyTags)

\* A validate_path that rebuilds in non-strict mode.
StrictOff == FALSE

\* def build_path(self, strict=True, **tags), as validate_path calls it
StrictDefault == TRUE

\* if self.build_path(**tags) == path: return True; return False
ValidateBuilt(built, path) ==
  IF built.kind = "raise" THEN built ELSE Returned(built = Returned(path))

validate_path(details, path) ==
  ValidateBuilt(build_path(details, StrictDefault, extract_tags(details, path)),
                path)

(***************************************************************************)
(* The specifications (details: tag definitions and path templates), tag    *)
(* sets and paths the Specification engine is exercised on.                 *)
(***************************************************************************)

\* sub-(\w+)
SubjectDef ==
  [name |-> "subject",
   pattern |-> [pre |-> "sub-", gpre |-> "", cls |-> WordChars, post |-> "",
                anchored |-> FALSE]]

\* ses-([a-zA-Z0-9]+)
SessionDef ==
  [name |-> "session",
   pattern |-> [pre |-> "ses-", gpre |-> "", cls |-> AlNum, post |-> "",
                anchored |-> FALSE]]

\* _([a-zA-Z0-9]+)\.
SuffixDef ==
  [name |-> "suffix",
   pattern |-> [pre |-> "_", gpre |-> "", cls |-> AlNum, post |-> ".",
                anchored |-> FALSE]]

\* (\.[\w.]+)$
ExtensionDef ==
  [name |-> "extension",
   pattern |-> [pre |-> "", gpre |-> ".", cls |-> WordDot, post |-> "",
                anchored |-> TRUE]]

\* \.nii\.(\w+)$
CompressionDef ==
  [name |-> "compression",
   pattern |-> [pre |-> ".nii.", gpre |-> "", cls |-> WordChars, post |-> "",
                anchored |-> TRUE]]

\* The specification of the documented scenario: the template writes a "."
\* before {extension}.
ScenarioDetails ==
  [tags |-> <<SubjectDef, SuffixDef, ExtensionDef>>,
   path_patterns |-> <<"sub-{subject}/sub-{subject}_{suffix}.{extension}">>]

\* One template with an optional session segment.
OptionalDetails ==
  [tags |-> <<SubjectDef, SessionDef, SuffixDef, ExtensionDef>>,
   path_patterns |->
     <<"sub-{subject}/sub-{subject}[_ses-{session}]_{suffix}{extension}">>]

\* Several templates, tried in order, and a tag no template refers to.
OrderedDetails ==
  [tags |-> <<SubjectDef, SessionDef, SuffixDef, ExtensionDef, CompressionDef>>,
   path_patterns |->
     <<"sub-{subject}/ses-{session}/sub-{subject}_ses-{session}_{suffix}{extension}",
       "sub-{subject}/sub-{subject}_{suffix}{extension}",
       "sub-{subject}">>]

\* Tokens with valid values and defaults, inside and outside optional segments.
ValuedDetails ==
  [tags |-> <<SubjectDef, SessionDef, SuffixDef, ExtensionDef>>,
   path_patterns |->
     <<"sub-{subject}[_ses-{session<01|02>}]_{suffix<T1w|bold>|bold}{extension}",
       "sub-{subject}[_ses-{session|01}]">>]

\* A token whose default is not one of its valid values.
InconsistentDetails ==
  [tags |-> <<SubjectDef, SessionDef>>,
   path_patterns |-> <<"sub-{subject}_ses-{session<01|02>|03}", "sub-{subject}">>]

\* A template that ends with literal text, before one that ends with a
\* placeholder.
LiteralDetails ==
  [tags |-> <<SubjectDef, SuffixDef>>,
   path_patterns |->
     <<"sub-{subject}/sub-{subject}_{suffix}.json", "sub-{subject}_{suffix}">>]

\* Two definitions of the tag session: ses-([a-zA-Z0-9]+) and, after it,
\* _([a-zA-Z0-9]+)\.
DuplicateDetails ==
  [tags |-> <<SubjectDef, SessionDef,
              [name |-> "session", pattern |-> SuffixDef.pattern]>>,
   path_patterns |-> <<"sub-{subject}[_ses-{session}]">>]

Specifications ==
  <<ScenarioDetails, OptionalDetails, OrderedDetails, ValuedDetails,
    InconsistentDetails, LiteralDetails, DuplicateDetails>>

\* The tag mappings handed to build_path: each name absent or with one of its
\* values.
Absent == [t |-> "absent", s |-> ""]

TagChoices ==
  [subject : {PyStr("01")},
   session : {Absent, PyStr("02"), PyStr("03"), PyStr(""), PyNone, PyInt("0")},
   suffix : {Absent, PyStr("T1w")},
   extension : {Absent, PyStr("nii.gz"), PyStr(".nii.gz")},
   acq : {Absent, PyStr("x"), PyNone}]

TagsOf(c) == Restrict(c, { k \in DOMAIN c : c[k] # Absent })

TagInputs == { TagsOf(c) : c \in TagChoices }

PathInputs ==
  { "sub-01",
    "sub-01/sub-01_T1w.nii.gz",
    "sub-01/sub-01_T1w..nii.gz",
    "sub-01/sub-01_ses-02_T1w.nii.gz",
    "sub-01/ses-02/sub-01_ses-02_T1w.nii.gz",
    "sub-01/sub-01_T1w.json",
    "sub-01_ses-02_bold.nii",
    "notes.txt" }

(***************************************************************************)
(* State.  build_path, extract_tags and validate_path read the              *)
(* specification and their arguments only: a behaviour is one call on one   *)
(* of the specifications, with arguments drawn from the sets above, and     *)
(* possibly the same build_path call once more.                             *)
(***************************************************************************)

VARIABLES
  details,  \* Specification.details of the specification in use
  last,     \* the last call on the specification, with its outcome
  before,   \* the call before it, when last repeats it
  listing,  \* the order in which os.scandir yields the layout root's entries
  files,    \* Layout.files of each layout, by root: a list of file paths
  file_tags, \* File.tags of each File constructed so far, by path
  runs,     \* the Layout.index calls made: layout, valid_only, reset
  result,   \* the last Layout.query call, with what it returned
  adds,     \* the Layout.add calls made, each with its outcome
  retags,   \* the File.index calls made with tag functions, each with its outcome
  values,   \* the last get_tag_values call, with what it returned
  read_only, \* Indexer.read_only
  heap,     \* the objects constructed so far; an object's identity is its position
  cache,    \* index._unique_cache: key -> object
  session,  \* the objects added to the index session
  rows,     \* the objects flushed to the index database
  committed, \* the objects whose rows are committed
  calls,    \* the constructions so far, each with its outcome
  components, \* Dataset.components of each dataset, by name
  dataset_adds, \* the Dataset.add calls made, each with its outcome
  destination, \* the files under the destination directory of organize
  organized \* the Specification.organize calls made, each with its outcome

pathVars == <<details, last, before>>

layoutVars == <<listing, files, file_tags, runs, result, adds, retags, values>>

uniqueVars == <<read_only, heap, cache, session, rows, committed, calls>>

datasetVars == <<components, dataset_adds>>

organizeVars == <<destination, organized>>

otherVars == <<datasetVars, organizeVars>>

vars == <<pathVars, layoutVars, uniqueVars, otherVars>>

NoCall ==
  [op |-> "none", strict |-> FALSE, tags |-> EmptyTags, path |-> "", ret |-> None]

BuildPathCall(strict, tags) ==
  [op |-> "build_path", strict |-> strict, tags |-> tags, path |-> "",
   ret |-> build_path(details, strict, tags)]

\* spec.build_path(strict=strict, **tags)
BuildPath ==
  \E strict \in BOOLEAN, tags \in TagInputs :
    /\ last = NoCall
    /\ last' = BuildPathCall(strict, tags)
    /\ before' = NoCall
    /\ UNCHANGED <<details, layoutVars, uniqueVars, otherVars>>

\* The same call once more, on the same specification and tags.
BuildPathAgain ==
  /\ last.op = "build_path"
  /\ before = NoCall
  /\ before' = last
  /\ last' = BuildPathCall(last.strict, last.tags)
  /\ UNCHANGED <<details, layoutVars, uniqueVars, otherVars>>

\* spec.extract_tags(path)
ExtractTags ==
  \E path \in PathInputs :
    /\ last = NoCall
    /\ last' = [op |-> "extract_tags", strict |-> FALSE, tags |-> EmptyTags,
                path |-> path, ret |-> Returned(extract_tags(details, path))]
    /\ before' = NoCall
    /\ UNCHANGED <<details, layoutVars, uniqueVars, otherVars>>

\* spec.validate_path(path)
ValidatePath ==
  \E path \in PathInputs :
    /\ last = NoCall
    /\ last' = [op |-> "validate_path", strict |-> FALSE, tags |-> EmptyTags,
                path |-> path, ret |-> validate_path(details, path)]
    /\ before' = NoCall
    /\ UNCHANGED <<details, layoutVars, uniqueVars, otherVars>>

(***************************************************************************)
(* Specification.__init__ and the compilation of the tag definitions'       *)
(* regular expressions.  Here a tag definition carries the text of its      *)
(* regular expression (regex) beside its parsed form (pattern); a malformed *)
(* text has no parsed form.                                                 *)
(***************************************************************************)

\* The number of occurrences of the character ch in the text s.
CountOf(s, ch) == Cardinality({ i \in 1..Len(s) : SubSeq(s, i, i) = ch })

\* re.compile(regex) returns: every group and every character set of the
\* text is closed (texts without escaped brackets).  Otherwise it raises
\* re.error.
Compiles(regex) ==
  /\ CountOf(regex, "(") = CountOf(regex, ")")
  /\ CountOf(regex, "[") = CountOf(regex, "]")

\* A tag definition as the YAML file gives it: name and pattern text.
WithRegex(tagdef, regex) == [regex |-> regex] @@ tagdef

WellFormedTags ==
  << WithRegex(SubjectDef, "sub-(\\w+)"),
     WithRegex(SessionDef, "ses-([a-zA-Z0-9]+)"),
     WithRegex(SuffixDef, "_([a-zA-Z0-9]+)\\."),
     WithRegex(ExtensionDef, "(\\.[\\w.]+)$") >>

\* Tag definitions whose pattern text does not compile: a group that is
\* not closed, a character set that is not closed.
MalformedDefs ==
  { [name |-> "session", regex |-> "ses-([a-zA-Z0-9]+"],
    [name |-> "session", regex |-> "ses-([a-zA-Z0-9+)"] }

\* The details a Specification is constructed with: the well-formed one and
\* those with one malformed definition.
CompileInputs ==
  { [tags |-> WellFormedTags, path_patterns |-> OptionalDetails.path_patterns] }
    \cup { [tags |-> [WellFormedTags EXCEPT ![n] = d],
            path_patterns |-> OptionalDetails.path_patterns] :
             n \in {1, 2, 4}, d \in MalformedDefs }

\* Specification.__init__(name, details): self.name = name;
\* self.details = details.  It returns None whatever details holds.
SpecificationInitOutcome(d) == None

\* extract_tags on definitions with pattern texts: re.findall compiles
\* tag["pattern"] when the loop reaches the definition and raises re.error
\* if it is malformed.
RECURSIVE ExtractCompiling(_, _, _, _)
ExtractCompiling(tagdefs, i, path, t) ==
  IF i > Len(tagdefs) THEN Returned(t)
  ELSE IF ~Compiles(tagdefs[i].regex) THEN Raised("re.error")
  ELSE ExtractCompiling(tagdefs, i + 1, path,
         IF ReFirst(tagdefs[i].pattern, path).ok
         THEN SetItem(t, tagdefs[i].name,
                      PyStr(ReFirst(tagdefs[i].pattern, path).val))
         ELSE t)

\* validate_path: tags = self.extract_tags(path) raises before build_path
\* is called.
ValidateCompiling(d, path) ==
  IF ExtractCompiling(d.tags, 1, path, EmptyTags).kind = "raise"
  THEN ExtractCompiling(d.tags, 1, path, EmptyTags)
  ELSE validate_path(d, path)

\* No Specification constructed yet.
NoDetails == [tags |-> <<>>, path_patterns |-> <<>>]

\* spec = Specification(name=..., details=d)
SpecificationInit ==
  \E d \in CompileInputs :
    /\ details = NoDetails
    /\ last = NoCall
    /\ last' = [op |-> "__init__", strict |-> FALSE, tags |-> EmptyTags,
                path |-> "", ret |-> SpecificationInitOutcome(d)]
    /\ details' = IF SpecificationInitOutcome(d).kind = "raise" THEN details
                  ELSE d
    /\ before' = NoCall
    /\ UNCHANGED <<layoutVars, uniqueVars, otherVars>>

\* spec.extract_tags(path) on the constructed Specification
ExtractTagsOf ==
  \E path \in PathInputs :
    /\ details # NoDetails
    /\ last.op = "__init__"
    /\ before' = last
    /\ last' = [op |-> "extract_tags", strict |-> FALSE, tags |-> EmptyTags,
                path |-> path,
                ret |-> ExtractCompiling(details.tags, 1, path, EmptyTags)]
    /\ UNCHANGED <<details, layoutVars, uniqueVars, otherVars>>

\* spec.validate_path(path) on the constructed Specification
ValidatePathOf ==
  \E path \in PathInputs :
    /\ details # NoDetails
    /\ last.op = "__init__"
    /\ before' = last
    /\ last' = [op |-> "validate_path", strict |-> FALSE, tags |-> EmptyTags,
                path |-> path, ret |-> ValidateCompiling(details, path)]
    /\ UNCHANGED <<details, layoutVars, uniqueVars, otherVars>>

(***************************************************************************)
(* Layout and File (layout.py).  Two layouts, rooted at "/a" and "/b",      *)
(* over directories of the same content; a File is identified by its path. *)
(***************************************************************************)

Roots == {"/a", "/b"}

\* Layout.specification
SpecificationOf(root) == IF root = "/a" THEN OptionalDetails ELSE OrderedDetails

\* The directories under a layout root, relative to it.
Dirs == {"sub-01", "sub-02"}

\* The orders in which os.scandir may yield the entries of a layout root.
Listings ==
  { <<"sub-01", "notes.txt", "sub-02">>, <<"notes.txt", "sub-02", "sub-01">> }

\* os.path.relpath(path, self.root), for a path at or under the root
RelPath(path, root) == SubSeq(path, Len(root) + 2, Len(path))

\* os.path.join(root, entry)
JoinPath(root, entry) == root \o "/" \o entry

\* os.scandir(root): the names of the entries of directory root of layout L.
Scandir(L, root) ==
  IF root = L THEN listing
  ELSE IF RelPath(root, L) = "sub-01"
  THEN <<"sub-01_T1w.nii.gz", "sub-01_ses-02_T1w.nii.gz">>
  ELSE IF RelPath(root, L) = "sub-02" THEN <<"sub-02_ses-02_bold.nii.gz">>
  ELSE <<>>

\* entry.is_dir()
IsDir(L, path) == RelPath(path, L) \in Dirs

\* dict.update
Update(d, t) ==
  [k \in (DOMAIN d) \cup (DOMAIN t) |-> IF k \in DOMAIN t THEN t[k] ELSE d[k]]

\* File.index(metadata=False, reset) of the File at path, attached to layout
\* L: its tags afterwards, all_tags being the tags of every File so far.
FileIndex(L, path, reset, all_tags) ==
  Update(IF reset \/ path \notin DOMAIN all_tags THEN EmptyTags
         ELSE all_tags[path],
         extract_tags(SpecificationOf(L), RelPath(path, L)))

\* file = File(path=path); self.add(file); file.index(metadata, reset, **funcs)
AddFile(L, path, reset, st) ==
  [err |-> "", files |-> Append(st.files, path),
   tags |-> SetItem(st.tags, path, FileIndex(L, path, reset, st.tags))]

\* A Layout.index that adds every entry, whatever validate_path returns.
AddAlways(L, path, valid_only, reset, st, valid) == AddFile(L, path, reset, st)

\* Layout.index(root, metadata, valid_only, skip, reset) on layout L, from
\* st: the layout's files and the Files' tags so far (err: the exception
\* that ended the call).  valid: what validate_path(rel_path) returns, read
\* only if valid_only.
RECURSIVE LayoutIndexDir(_, _, _, _, _)
IndexEntry(L, path, valid_only, reset, st, valid) ==
  IF valid_only /\ valid.kind = "raise" THEN [st EXCEPT !.err = valid.val]
  ELSE IF valid_only /\ ~valid.val
  THEN IF IsDir(L, path) THEN LayoutIndexDir(L, path, valid_only, reset, st)
       ELSE st
  ELSE AddFile(L, path, reset, st)

RECURSIVE LayoutIndexFrom(_, _, _, _, _, _)
LayoutIndexFrom(L, root, i, valid_only, reset, st) ==
  IF st.err # "" \/ i > Len(Scandir(L, root)) THEN st
  ELSE LayoutIndexFrom(L, root, i + 1, valid_only, reset,
         IndexEntry(L, JoinPath(root, Scandir(L, root)[i]), valid_only, reset,
                    st,
                    validate_path(SpecificationOf(L),
                                  RelPath(JoinPath(root, Scandir(L, root)[i]),
                                          L))))

LayoutIndexChecked(L, root, valid_only, reset, st) ==
  IF ~StartsWith(root, L) THEN [st EXCEPT !.err = "ValueError"]
  ELSE LayoutIndexFrom(L, root, 1, valid_only, reset, st)

LayoutIndexDir(L, root, valid_only, reset, st) ==
  LayoutIndexChecked(L, root, valid_only, reset,
                     IF reset THEN [st EXCEPT !.files = <<>>] ELSE st)

\* The files of layout L in the index: File.root == self.root
FilesOf(L) == SeqRange(files[L])

\* A query without its where clause on the tags.
NoConditions(filters, n, v) == TRUE

\* or_(*conditions) on the Tag (n, v) of a joined row; without conditions
\* the where clause is empty.
Conditions(filters, n, v) ==
  \/ DOMAIN filters = {}
  \/ \E m \in DOMAIN filters : n = m /\ v \in filters[m]

\* match: the rows (File, Tag) of
\* select(File).join(Marking).join(Tag).where(File.root == self.root)
\*   .where(or_(*conditions))
MatchRows(L, filters) ==
  { r \in [file : FilesOf(L), name : UNION { DOMAIN file_tags[f] : f \in FilesOf(L) }] :
      /\ r.name \in DOMAIN file_tags[r.file]
      /\ Conditions(filters, r.name, file_tags[r.file][r.name].s) }

\* A query that keeps every file with a matching row.
TrimAny(matched, n) == { r.file : r \in matched }

\* trim: match.group_by(File).having(func.count(Tag.name) == len(filters))
Trim(matched, n) ==
  { f \in { r.file : r \in matched } :
      Cardinality({ r \in matched : r.file = f }) = n }

\* Layout.query(**filters), filters listified: name -> collection of values
LayoutQuery(L, filters) ==
  Trim(MatchRows(L, filters), Cardinality(DOMAIN filters))

\* The keyword filters of a query.
FilterNames == {"subject", "session", "suffix"}

FilterValues == { {"01"}, {"02"}, {"01", "02"}, {"T1w"} }

FilterInputs == UNION { [S -> FilterValues] : S \in SUBSET FilterNames }

EmptyFilters == [k \in {} |-> {}]

NoQuery == [root |-> "", filters |-> EmptyFilters, files |-> {}]

MaxIndexRuns == 2

\* The effect of layout.index(valid_only=valid_only, reset=reset) on the
\* layout's files and the Files' tags, and its entry in runs.
LayoutIndexCall(L, valid_only, reset) ==
  /\ LET st == LayoutIndexDir(L, L, valid_only, reset,
                              [err |-> "", files |-> files[L], tags |-> file_tags])
     IN /\ files' = [files EXCEPT ![L] = st.files]
        /\ file_tags' = st.tags
  /\ runs' = Append(runs, [root |-> L, valid_only |-> valid_only,
                            reset |-> reset])

\* layout.index(valid_only=valid_only, reset=reset)
LayoutIndex ==
  \E L \in Roots, valid_only \in BOOLEAN, reset \in BOOLEAN :
    /\ Len(runs) < MaxIndexRuns
    /\ result = NoQuery
    /\ LayoutIndexCall(L, valid_only, reset)
    /\ UNCHANGED <<listing, result, adds, retags, values, pathVars, uniqueVars, otherVars>>

\* layout.query(**filters)
Query ==
  \E L \in Roots, filters \in FilterInputs :
    /\ result = NoQuery
    /\ result' = [root |-> L, filters |-> filters,
                  files |-> LayoutQuery(L, filters)]
    /\ UNCHANGED <<listing, files, file_tags, runs, adds, retags, values,
                   pathVars, uniqueVars, otherVars>>

\* The Files handed to Layout.add, by path: under "/a", under "/b", and in
\* a directory whose name begins with that of "/a".
AddPaths == {"/a/f.txt", "/b/g.txt", "/ab/h.txt"}

\* The argument lists of Layout.add: one or two Files.
AddInputs ==
  { <<p>> : p \in AddPaths } \cup { <<p, q>> : p \in AddPaths, q \in AddPaths }

\* not any(f.path.startswith(self.root) for f in files)
NoneInScope(L, fs) == ~\E n \in 1..Len(fs) : StartsWith(fs[n], L)

\* One Layout.add call and its outcome, as kept in adds.
AddCall(L, fs, ret) == [root |-> L, paths |-> fs, ret |-> ret]

MaxAdds == 2

\* layout.add(*files): raise TypeError, or self.files.extend(files)
LayoutAdd ==
  \E L \in Roots, fs \in AddInputs :
    /\ Len(adds) < MaxAdds
    /\ IF NoneInScope(L, fs)
       THEN /\ adds' = Append(adds, AddCall(L, fs, Raised("TypeError")))
            /\ UNCHANGED files
       ELSE /\ adds' = Append(adds, AddCall(L, fs, None))
            /\ files' = [files EXCEPT ![L] = @ \o fs]
    /\ UNCHANGED <<listing, file_tags, runs, result, retags, values, pathVars,
                   uniqueVars, otherVars>>

\* The answer of a get_tag_values call, before any is made.
NoValues ==
  [root |-> "", name |-> "", filters |-> EmptyTags, values |-> EmptyTags]

(***************************************************************************)
(* File.index with tag functions.  File.tags is an association proxy over   *)
(* File._tags, a dict of Tag objects keyed by name; Tag objects are unique  *)
(* by (name, value) and shared by the Files they mark.  Assigning through   *)
(* the proxy to a name the File has sets the value attribute of the Tag     *)
(* object it holds; the next flush writes that Tag's row.                   *)
(***************************************************************************)

\* The tags File.index writes to the File at path f of layout L:
\* tags.update(extract_tags(rel_path)), then tags.update(t) with
\* t = {n: f(self.path) for n, f in funcs.items()}, here funcs = {n: v}.
Written(L, f, funcs) ==
  Update(extract_tags(SpecificationOf(L), RelPath(f, L)), funcs)

\* Some written value differs from the one held and is the value of another
\* Tag object of that name: the flush violates UniqueConstraint(name, value).
ValueTaken(all_tags, f, written) ==
  \E k \in DOMAIN written \cap DOMAIN all_tags[f] :
    /\ written[k] # all_tags[f][k]
    /\ \E g \in DOMAIN all_tags :
         k \in DOMAIN all_tags[g] /\ all_tags[g][k] = written[k]

\* The tags of every File after the writes to the File at f: each Tag object
\* the File holds under a written name has the written value, for every
\* File that holds that object.
SetThroughProxy(all_tags, f, written) ==
  [g \in DOMAIN all_tags |->
     [k \in DOMAIN all_tags[g] |->
        IF /\ k \in DOMAIN written
           /\ k \in DOMAIN all_tags[f]
           /\ all_tags[g][k] = all_tags[f][k]
        THEN written[k]
        ELSE all_tags[g][k]]]

\* The values the tag functions return.
FuncValues == {"bold", "dwi"}

\* One File.index call with a tag function, as kept in retags.
RetagCall(L, f, n, v, ret) ==
  [root |-> L, path |-> f, name |-> n, value |-> v, ret |-> ret]

MaxRetags == 1

\* layout.index() of a layout not indexed yet
TagIndex ==
  \E L \in Roots :
    /\ \A i \in 1..Len(runs) : runs[i].root # L
    /\ retags = <<>>
    /\ result = NoQuery
    /\ values = NoValues
    /\ LayoutIndexCall(L, TRUE, FALSE)
    /\ UNCHANGED <<listing, result, adds, retags, values, pathVars, uniqueVars, otherVars>>

\* file.index(**{n: lambda path: v}) on a File of a layout that has a tag n,
\* and the flush that follows; IntegrityError when the flush fails, and the
\* rows are then as they were.
FileIndexFuncs ==
  \E L \in Roots, n \in FilterNames, v \in FuncValues :
    \E f \in FilesOf(L) :
      /\ Len(retags) < MaxRetags
      /\ \A i \in 1..Len(retags) : retags[i].ret = None
      /\ result = NoQuery
      /\ n \in DOMAIN file_tags[f]
      /\ IF ValueTaken(file_tags, f, Written(L, f, n :> PyStr(v)))
         THEN /\ retags' = Append(retags, RetagCall(L, f, n, v,
                                                    Raised("IntegrityError")))
              /\ UNCHANGED file_tags
         ELSE /\ retags' = Append(retags, RetagCall(L, f, n, v, None))
              /\ file_tags' = SetThroughProxy(file_tags, f,
                                              Written(L, f, n :> PyStr(v)))
      /\ UNCHANGED <<listing, files, runs, result, adds, values, pathVars,
                     uniqueVars, otherVars>>

\* The values a query on one tag name asks for.
QueryValues == {"T1w", "bold", "dwi", "02"}

\* layout.query(**{n: v})
QueryTag ==
  \E L \in Roots, n \in FilterNames, v \in QueryValues :
    /\ result = NoQuery
    /\ \A i \in 1..Len(retags) : retags[i].ret = None
    /\ result' = [root |-> L, filters |-> (n :> {v}),
                  files |-> LayoutQuery(L, n :> {v})]
    /\ UNCHANGED <<listing, files, file_tags, runs, adds, retags, values,
                   pathVars, uniqueVars, otherVars>>

(***************************************************************************)
(* Layout.get_tag_values (data/layout.py, data/indexer.py) over the tags    *)
(* table: one row (path, name, value) per tag of a File.  The rows a select *)
(* returns are a function from row to number of copies.                     *)
(***************************************************************************)

\* The rows of the tags table.
TagRows ==
  UNION { { [path |-> f, name |-> n, value |-> file_tags[f][n].s] :
              n \in DOMAIN file_tags[f] } : f \in DOMAIN file_tags }

\* _tags_filter(**filters): select(Tag.path), with filters
\* .where(tuple_(Tag.name, Tag.value).in_(tag_reqs)).group_by(Tag.path)
\* .having(func.count(Tag.name) == len(tag_reqs))
TagsFilter(filters) ==
  IF DOMAIN filters = {} THEN { r.path : r \in TagRows }
  ELSE { p \in { r.path : r \in TagRows } :
           Cardinality({ r \in TagRows :
                           /\ r.path = p
                           /\ r.name \in DOMAIN filters
                           /\ r.value = filters[r.name] })
             = Cardinality(DOMAIN filters) }

\* A files filter without its condition on the root.
AnyRoot(f, root) == TRUE

\* File.root == root
FileRootIs(f, root) == f \in FilesOf(root)

\* _files_filter(root, **filters): select(File)
\* .where(File.path.in_(select(tags_filter))).where(File.root == root)
FilesFilter(root, filters) ==
  { f \in UNION { FilesOf(L) : L \in Roots } :
      f \in TagsFilter(filters) /\ FileRootIs(f, root) }

\* select(Tag.value).where(Tag.path.in_(...)).where(Tag.name == name):
\* one copy of the value per row selected.
SelectValue(selected) ==
  [v \in { r.value : r \in selected } |->
     Cardinality({ r \in selected : r.value = v })]

\* .distinct()
Distinct(copies) == [v \in DOMAIN copies |-> 1]

\* _tag_values(root, name, **filters), run
TagValues(root, name, filters) ==
  Distinct(SelectValue({ r \in TagRows :
                           /\ r.path \in FilesFilter(root, filters)
                           /\ r.name = name }))

\* The keyword filters of get_tag_values: name -> value.
ValueFilters ==
  UNION { [S -> {"01", "02", "T1w"}] : S \in SUBSET {"subject", "session", "suffix"} }

\* layout.get_tag_values(name, **filters)
GetTagValues ==
  \E L \in Roots, name \in FilterNames, filters \in ValueFilters :
    /\ values = NoValues
    /\ values' = [root |-> L, name |-> name, filters |-> filters,
                  values |-> TagValues(L, name, filters)]
    /\ UNCHANGED <<listing, files, file_tags, runs, result, adds, retags,
                   pathVars, uniqueVars, otherVars>>

\* Two layouts without files, as Layout(root=..., specification_name=...)
\* leaves them.
LayoutFresh ==
  /\ files = [L \in Roots |-> <<>>]
  /\ file_tags = EmptyTags
  /\ runs = <<>>
  /\ result = NoQuery
  /\ adds = <<>>
  /\ retags = <<>>
  /\ values = NoValues

(***************************************************************************)
(* Look-up instantiation (core/uniquify.py) over the index (indexer.py).    *)
(* An object is the record of its class and attributes at its position in  *)
(* heap; the position is its identity.                                      *)
(***************************************************************************)

Classes == {"Tag", "File", "Layout"}

\* cls.__identifier_attrs__, in the order this process iterates the set
IdentifierAttrs(cls) ==
  IF cls = "Tag" THEN <<"name", "value">>
  ELSE IF cls = "File" THEN <<"path">>
  ELSE <<"root">>

\* The keyword-only parameters of the class's own __init__.
InitParams(cls) ==
  IF cls = "Tag" THEN {"name", "value"}
  ELSE IF cls = "File" THEN {"path"}
  ELSE {"root", "specification_name"}

Home == "/home/u"

\* os.path.expanduser
ExpandUser(path) ==
  IF path = "~" \/ StartsWith(path, "~/")
  THEN Home \o SubSeq(path, 2, Len(path))
  ELSE path

\* cls.get_identifiers(**kwargs) as tuple(idens.values())
GetIdentifiers(cls, kwargs) ==
  [n \in 1..Len(IdentifierAttrs(cls)) |->
     IF IdentifierAttrs(cls)[n] \in DOMAIN kwargs
     THEN kwargs[IdentifierAttrs(cls)[n]]
     ELSE PyNone]

\* An identity check that lets every call through.
NeverIncomplete(idens) == FALSE

\* get_incomplete_keys(idens) is not empty
Incomplete(idens) == \E n \in DOMAIN idens : idens[n] = PyNone

\* The attributes cls.__init__(**kwargs) sets: File.path and Layout.root
\* pass through expanduser.
InitAttrs(cls, kwargs) ==
  [a \in DOMAIN kwargs |->
     IF (cls = "File" /\ a = "path") \/ (cls = "Layout" /\ a = "root")
     THEN PyStr(ExpandUser(kwargs[a].s))
     ELSE kwargs[a]]

\* cls.get(**{i: getattr(obj, i) for i in idens}): the object of the row of
\* cls with these identifier values; 0 for None.  Rows not flushed are not
\* seen (no_autoflush).
GetRow(cls, attrs) ==
  FirstOf({ id \in rows :
              /\ heap[id].cls = cls
              /\ \A n \in 1..Len(IdentifierAttrs(cls)) :
                   heap[id].attrs[IdentifierAttrs(cls)[n]]
                     = attrs[IdentifierAttrs(cls)[n]] })

\* A cache that is never hit.
NeverCached(key, c) == FALSE

\* if key in cache
CacheHit(key, c) == key \in DOMAIN c

\* obj = cls.get(...) or obj; then obj = cache[key] if key in cache
Looked(key, found, new) ==
  IF CacheHit(key, cache) THEN cache[key]
  ELSE IF found # 0 THEN found
  ELSE new

\* One construction and its outcome, as kept in calls; integrity: the flush
\* of its index.add raised IntegrityError.
Call(c, kind, val, integrity) ==
  [cls |-> c.cls, args |-> c.args, kwargs |-> c.kwargs, kind |-> kind,
   val |-> val, integrity |-> integrity]

\* Indexer.add(obj): session.add_all and, unless read-only, flush; on an
\* IntegrityError (integrity) rollback, which drops what was not committed,
\* and commit.
IndexAdd(obj, integrity) ==
  IF read_only
  THEN /\ session' = session \cup {obj}
       /\ UNCHANGED <<rows, committed>>
  ELSE IF integrity
  THEN /\ session' = committed
       /\ rows' = committed
       /\ UNCHANGED committed
  ELSE /\ session' = session \cup {obj}
       /\ rows' = session \cup {obj}
       /\ UNCHANGED committed

\* The class's own __init__ run again on the instance __new__ returned.
OwnInit(cls, attrs, kwargs) == InitAttrs(cls, kwargs)

\* cls.__init__ = _null_init_: what Python runs, with the call's keywords,
\* on the instance __new__ returned; it leaves the attributes as they are.
NullInit(cls, attrs, kwargs) == attrs

\* unique(index, cls, constructor, args, kwargs) past its checks: obj is the
\* object the call returns, and the object constructor(**kwargs) made is
\* the next of the heap.
Unique(c, key, obj, integrity) ==
  /\ heap' = [Append(heap, [cls |-> c.cls,
                            attrs |-> InitAttrs(c.cls, c.kwargs)])
               EXCEPT ![obj].attrs = NullInit(c.cls, @, c.kwargs)]
  /\ cache' = IF CacheHit(key, cache) THEN cache ELSE cache @@ (key :> obj)
  /\ IndexAdd(obj, integrity)
  /\ calls' = Append(calls, Call(c, "return", obj, integrity))

\* The constructions made: cls(*args, **kwargs).
ConstructInputs ==
  { [cls |-> "Tag", args |-> <<>>,
     kwargs |-> [name |-> PyStr("subject"), value |-> PyStr("01")]],
    [cls |-> "Tag", args |-> <<>>,
     kwargs |-> [name |-> PyStr("subject"), value |-> PyStr("02")]],
    [cls |-> "Tag", args |-> <<>>,
     kwargs |-> [name |-> PyStr("subject"), value |-> PyNone]],
    [cls |-> "Tag", args |-> <<>>, kwargs |-> [name |-> PyStr("subject")]],
    [cls |-> "Tag", args |-> <<"subject">>, kwargs |-> [value |-> PyStr("01")]],
    [cls |-> "Tag", args |-> <<>>, kwargs |-> EmptyTags],
    [cls |-> "File", args |-> <<>>, kwargs |-> [path |-> PyStr("/home/u/f")]],
    [cls |-> "File", args |-> <<>>, kwargs |-> [path |-> PyStr("~/f")]],
    [cls |-> "Layout", args |-> <<>>,
     kwargs |-> [root |-> PyStr("/a"), specification_name |-> PyStr("bids")]],
    [cls |-> "Layout", args |-> <<>>,
     kwargs |-> [root |-> PyStr("/a"), specification_name |-> PyStr("other")]],
    [cls |-> "Layout", args |-> <<>>, kwargs |-> [root |-> PyStr("/a")]] }

MaxCalls == 3

\* cls(**kwargs) with every identifier and every parameter of __init__
Construct ==
  \E c \in ConstructInputs, integrity \in BOOLEAN :
    /\ Len(calls) < MaxCalls
    /\ c.args = <<>>
    /\ ~Incomplete(GetIdentifiers(c.cls, c.kwargs))
    /\ DOMAIN c.kwargs = InitParams(c.cls)
    /\ integrity => ~read_only
    /\ Unique(c, <<c.cls, GetIdentifiers(c.cls, c.kwargs)>>,
              Looked(<<c.cls, GetIdentifiers(c.cls, c.kwargs)>>,
                     GetRow(c.cls, InitAttrs(c.cls, c.kwargs)),
                     Len(heap) + 1),
              integrity)
    /\ UNCHANGED <<read_only, pathVars, layoutVars, otherVars>>

\* cls(*args, **kwargs) that raises TypeError: positional arguments or an
\* identifier missing or None (before any object is made), no arguments at
\* all (_null_init_, on the bare object __new__ returned), or keywords that
\* the class's __init__ does not accept (on the object being constructed).
ConstructRaises ==
  \E c \in ConstructInputs :
    /\ Len(calls) < MaxCalls
    /\ \/ c.args # <<>>
       \/ Incomplete(GetIdentifiers(c.cls, c.kwargs))
       \/ DOMAIN c.kwargs # InitParams(c.cls)
    /\ heap' = IF /\ c.args = <<>>
                  /\ \/ DOMAIN c.kwargs = {}
                     \/ ~Incomplete(GetIdentifiers(c.cls, c.kwargs))
               THEN Append(heap, [cls |-> c.cls, attrs |-> EmptyTags])
               ELSE heap
    /\ calls' = Append(calls, Call(c, "raise", 0, FALSE))
    /\ UNCHANGED <<read_only, cache, session, rows, committed, pathVars,
                   layoutVars, otherVars>>

\* index.commit()
IndexCommit ==
  /\ ~read_only
  /\ rows # committed
  /\ committed' = rows
  /\ UNCHANGED <<read_only, heap, cache, session, rows, calls, pathVars,
                 layoutVars, otherVars>>

\* A process that has constructed nothing yet, on an empty index.
UniqueFresh ==
  /\ heap = <<>>
  /\ cache = EmptyTags
  /\ session = {}
  /\ rows = {}
  /\ committed = {}
  /\ calls = <<>>

(***************************************************************************)
(* Dataset (dataset.py).  Three datasets and a layout, by name; a Layout is *)
(* a Component without a components attribute.                              *)
(***************************************************************************)

Datasets == {"A", "B", "C"}

Components == Datasets \cup {"L"}

\* getattr(c, "components", [])
ComponentsOf(c) == IF c \in Datasets THEN SeqRange(components[c]) ELSE {}

\* Dataset d is c or is reachable from c through components, in n steps
\* at most.
RECURSIVE Reaches(_, _, _)
Reaches(c, d, n) ==
  \/ c = d
  \/ n > 0 /\ \E e \in ComponentsOf(c) : Reaches(e, d, n - 1)

\* any(c == self or self in getattr(c, "components", []) for c in components)
IncludesSelf(d, cs) ==
  \E n \in 1..Len(cs) : cs[n] = d \/ d \in ComponentsOf(cs[n])

\* The argument lists of Dataset.add: one component, or the layout and one
\* dataset.
DatasetAddInputs ==
  { <<c>> : c \in Components } \cup { <<"L", c>> : c \in Datasets }

MaxDatasetAdds == 3

\* dataset.add(*components): raise TypeError, or
\* self.components.extend(components)
DatasetAdd ==
  \E d \in Datasets, cs \in DatasetAddInputs :
    /\ Len(dataset_adds) < MaxDatasetAdds
    /\ IF IncludesSelf(d, cs)
       THEN /\ dataset_adds' = Append(dataset_adds,
                                      [self |-> d, components |-> cs,
                                       ret |-> Raised("TypeError")])
            /\ UNCHANGED components
       ELSE /\ dataset_adds' = Append(dataset_adds,
                                      [self |-> d, components |-> cs,
                                       ret |-> None])
            /\ components' = [components EXCEPT ![d] = @ \o cs]
    /\ UNCHANGED <<organizeVars, pathVars, layoutVars, uniqueVars>>

(***************************************************************************)
(* Specification.organize (specification.py) with utils/gen.py copy and     *)
(* get_dir_contents, on a source directory "/raw" and a destination "/out". *)
(* The rules have the mandatory keys, no skip, no add and no rename_rules;  *)
(* a tag rule has a value or a pattern, and may have a default.             *)
(***************************************************************************)

Source == "/raw"

Destination == "/out"

\* The one sub-directory of the source directory; its other entries are
\* files.
SourceDirs == {"extra"}

\* The orders in which os.walk and os.scandir yield the entries of the
\* source directory.
WalkOrders ==
  { <<"extra", "sub01_ses02_rec.eeg", "sub01_ses02_rec.json", "sub02_rec.eeg",
      "notes", "rec.eeg">>,
    <<"rec.eeg", "notes", "sub02_rec.eeg", "sub01_ses02_rec.eeg", "extra",
      "sub01_ses02_rec.json">> }

\* rules["pattern"] = r".*\.eeg": re.match(pattern, content)
MatchesPattern(content) == Contains(content, ".eeg")

\* rules["tag_rules"]: subject from sub(\d+), session from ses(\d+), the
\* suffix "eeg", extension from (\.\w+)$
TagRules ==
  << [name |-> "subject", kind |-> "pattern", value |-> "", default |-> "",
      pattern |-> [pre |-> "sub", gpre |-> "", cls |-> Digits, post |-> "",
                   anchored |-> FALSE]],
     [name |-> "session", kind |-> "pattern", value |-> "", default |-> "",
      pattern |-> [pre |-> "ses", gpre |-> "", cls |-> Digits, post |-> "",
                   anchored |-> FALSE]],
     [name |-> "suffix", kind |-> "value", value |-> "eeg", default |-> "",
      pattern |-> SuffixDef.pattern],
     [name |-> "extension", kind |-> "pattern", value |-> "", default |-> "",
      pattern |-> [pre |-> "", gpre |-> ".", cls |-> WordChars, post |-> "",
                   anchored |-> TRUE]] >>

\* A specification whose second template gives the session a default.
DefaultedDetails ==
  [tags |-> <<SubjectDef, SessionDef, SuffixDef, ExtensionDef>>,
   path_patterns |->
     <<"sub-{subject}/sub-{subject}_ses-{session}_{suffix}{extension}",
       "sub-{subject}/sub-{subject}_ses-{session|01}_{suffix}{extension}">>]

\* get_dir_contents(src, pattern, skip): the matching contents, in walk
\* order.
RECURSIVE GetDirContents(_, _)
GetDirContents(order, i) ==
  IF i > Len(order) THEN <<>>
  ELSE IF MatchesPattern(order[i])
  THEN <<JoinPath(Source, order[i])>> \o GetDirContents(order, i + 1)
  ELSE GetDirContents(order, i + 1)

\* match = re.findall(pattern, file); val = match[-1] if match else None
\* (the file names have at most one match of each pattern)
LastFound(pat, file) ==
  ReFirstAt(pat, file,
            IF { i \in 1..Len(file) : ReMatchAt(pat, file, i).ok } = {} THEN 0
            ELSE SetMax({ i \in 1..Len(file) : ReMatchAt(pat, file, i).ok }))

\* The value a tag rule gives the file.
RuleValue(rule, file) ==
  IF rule.kind = "value" THEN PyStr(rule.value)
  ELSE IF LastFound(rule.pattern, file).ok
  THEN PyStr(LastFound(rule.pattern, file).val)
  ELSE IF rule.default # "" THEN PyStr(rule.default)
  ELSE PyNone

\* for rule in rules.get("tag_rules"): ... tags.update({tag_name: val})
RECURSIVE TagsFromRules(_, _, _, _)
TagsFromRules(tag_rules, i, file, t) ==
  IF i > Len(tag_rules) THEN t
  ELSE TagsFromRules(tag_rules, i + 1, file,
                     SetItem(t, tag_rules[i].name, RuleValue(tag_rules[i], file)))

\* os.path.splitext(fellow)[1]
Splitext(path) ==
  IF { i \in 2..Len(path) : SubSeq(path, i, i) = "." } = {} THEN ""
  ELSE SubSeq(path, SetMax({ i \in 2..Len(path) : SubSeq(path, i, i) = "." }),
              Len(path))

\* copy(src, dst, overwrite) for a source that exists: an existing
\* destination is kept, with an error log, unless overwrite is set.
Copy(st, src, dst, overwrite) ==
  IF dst \in DOMAIN st.dest /\ ~overwrite
  THEN [st EXCEPT !.errors = Append(@, [src |-> src, dst |-> dst,
                                         why |-> "exists"])]
  ELSE [st EXCEPT !.dest = SetItem(@, dst, src),
                  !.copies = Append(@, [src |-> src, dst |-> dst])]

\* logging.error("Unable to build destination path for file"); continue
NoPath(st, src) ==
  [st EXCEPT !.errors = Append(@, [src |-> src, dst |-> "", why |-> "no path"])]

\* fellows: the entries of the file's directory other than the file and
\* the directories.
Fellows(order, file) ==
  SelectSeq([n \in 1..Len(order) |-> JoinPath(Source, order[n])],
            LAMBDA f : f # file /\ RelPath(f, Source) \notin SourceDirs)

\* One fellow: tags_copy = tags.copy();
\* tags_copy.update({"extension": os.path.splitext(fellow)[1]});
\* rel_path = self.build_path(**tags_copy); if not rel_path: log, continue;
\* copy(fellow, new_path, overwrite).  built: what build_path does; its
\* raise ends organize.
CopyFellow(st, fellow, built, overwrite) ==
  IF built.kind = "raise" THEN [st EXCEPT !.ret = built]
  ELSE IF built.kind # "return" \/ built.val = "" THEN NoPath(st, fellow)
  ELSE Copy(st, fellow, JoinPath(Destination, built.val), overwrite)

\* for fellow in fellows: ...
RECURSIVE CopyFellows(_, _, _, _, _, _)
CopyFellows(st, d, fellows, i, t, overwrite) ==
  IF i > Len(fellows) \/ st.ret.kind = "raise" THEN st
  ELSE CopyFellows(CopyFellow(st, fellows[i],
                              build_path(d, StrictDefault,
                                         SetItem(t, "extension",
                                                 PyStr(Splitext(fellows[i])))),
                              overwrite),
                   d, fellows, i + 1, t, overwrite)

\* The body of the loop over matches for one file with tags t:
\* rel_path = self.build_path(**tags); if not rel_path: log, continue;
\* copy(file, new_path, overwrite); if not copy_fellows: continue; fellows.
OrganizeFile(st, d, order, file, t, copy_fellows, overwrite, built) ==
  IF built.kind = "raise" THEN [st EXCEPT !.ret = built]
  ELSE IF built.kind # "return" \/ built.val = "" THEN NoPath(st, file)
  ELSE IF ~copy_fellows
  THEN Copy(st, file, JoinPath(Destination, built.val), overwrite)
  ELSE CopyFellows(Copy(st, file, JoinPath(Destination, built.val), overwrite),
                   d, Fellows(order, file), 1, t, overwrite)

\* The tags the tag rules give a file.
TagsOfFile(file) == TagsFromRules(TagRules, 1, file, EmptyTags)

\* for file in matches or []: ...
RECURSIVE OrganizeFrom(_, _, _, _, _, _, _)
OrganizeFrom(st, d, order, matches, i, copy_fellows, overwrite) ==
  IF i > Len(matches) \/ st.ret.kind = "raise" THEN st
  ELSE OrganizeFrom(OrganizeFile(st, d, order, matches[i],
                                 TagsOfFile(matches[i]), copy_fellows,
                                 overwrite,
                                 build_path(d, StrictDefault,
                                            TagsOfFile(matches[i]))),
                    d, order, matches, i + 1, copy_fellows, overwrite)

MaxOrganize == 2

\* spec.organize(rules) with rules["copy_fellows"] and rules["overwrite"]
Organize ==
  \E order \in WalkOrders, copy_fellows \in BOOLEAN, overwrite \in BOOLEAN :
    /\ Len(organized) < MaxOrganize
    /\ LET st == OrganizeFrom([ret |-> None, dest |-> destination,
                               copies |-> <<>>, errors |-> <<>>],
                              details, order, GetDirContents(order, 1), 1,
                              copy_fellows, overwrite)
       IN /\ destination' = st.dest
          /\ organized' = Append(organized,
                                 [order |-> order, copy_fellows |-> copy_fellows,
                                  overwrite |-> overwrite, ret |-> st.ret,
                                  copies |-> st.copies, errors |-> st.errors])
    /\ UNCHANGED <<datasetVars, pathVars, layoutVars, uniqueVars>>

\* Datasets without components, as Dataset(name=...) leaves them.
DatasetFresh ==
  /\ components = [d \in Datasets |-> <<>>]
  /\ dataset_adds = <<>>

\* No organize call made, and an empty destination directory.
OrganizeFresh ==
  /\ destination = EmptyTags
  /\ organized = <<>>

(***************************************************************************)
(* The specifications                                                       *)
(***************************************************************************)

PathIdle == last = NoCall /\ before = NoCall

PathInit ==
  /\ details \in SeqRange(Specifications)
  /\ PathIdle
  /\ listing = <<"sub-01", "notes.txt", "sub-02">>
  /\ LayoutFresh
  /\ read_only = FALSE
  /\ UniqueFresh
  /\ DatasetFresh
  /\ OrganizeFresh

PathNext == BuildPath \/ BuildPathAgain \/ ExtractTags \/ ValidatePath

SpecPath == PathInit /\ [][PathNext]_vars

LayoutInit ==
  /\ details = OptionalDetails
  /\ PathIdle
  /\ listing \in Listings
  /\ LayoutFresh
  /\ read_only = FALSE
  /\ UniqueFresh
  /\ DatasetFresh
  /\ OrganizeFresh

LayoutNext == LayoutIndex \/ Query

SpecLayout == LayoutInit /\ [][LayoutNext]_vars

AddNext == LayoutAdd

SpecAdd == LayoutInit /\ [][AddNext]_vars

TagNext == TagIndex \/ FileIndexFuncs \/ QueryTag

SpecTag == LayoutInit /\ [][TagNext]_vars

ValuesNext == TagIndex \/ GetTagValues

SpecValues == LayoutInit /\ [][ValuesNext]_vars

UniqueInit ==
  /\ details = OptionalDetails
  /\ PathIdle
  /\ listing = <<"sub-01", "notes.txt", "sub-02">>
  /\ LayoutFresh
  /\ read_only \in BOOLEAN
  /\ UniqueFresh
  /\ DatasetFresh
  /\ OrganizeFresh

UniqueNext == Construct \/ ConstructRaises \/ IndexCommit

SpecUnique == UniqueInit /\ [][UniqueNext]_vars

DatasetNext == DatasetAdd

SpecDataset == UniqueInit /\ [][DatasetNext]_vars

OrganizeInit ==
  /\ details \in {OptionalDetails, DefaultedDetails}
  /\ PathIdle
  /\ listing = <<"sub-01", "notes.txt", "sub-02">>
  /\ LayoutFresh
  /\ read_only = FALSE
  /\ UniqueFresh
  /\ DatasetFresh
  /\ OrganizeFresh

OrganizeNext == Organize

SpecOrganize == OrganizeInit /\ [][OrganizeNext]_vars


CompileInit ==
  /\ details = NoDetails
  /\ PathIdle
  /\ listing = <<"sub-01", "notes.txt", "sub-02">>
  /\ LayoutFresh
  /\ read_only = FALSE
  /\ UniqueFresh
  /\ DatasetFresh
  /\ OrganizeFresh

CompileNext == SpecificationInit \/ ExtractTagsOf \/ ValidatePathOf

SpecCompile == CompileInit /\ [][CompileNext]_vars

(***************************************************************************)
(* Properties of build_path, extract_tags and validate_path (SpecPath)      *)
(***************************************************************************)

\* The tag set every template of a build_path call is evaluated against.
KeptTags(tags) == NormalizeExtension(RemoveNone(tags))

\* The templates of the specification, by position, that a call with these
\* arguments does not reject.
NotRejected(strict, tags) ==
  { i \in 1..Len(details.path_patterns) :
      TryPattern(details.path_patterns[i], strict, KeptTags(tags)).kind
        # "reject" }

\* The names the tokens of a template refer to.
TokenNames(pattern) == { m.name : m \in SeqRange(TagPatternFindall(pattern)) }

\* The names the tokens of any template of the specification refer to.
ReferencedNames ==
  UNION { TokenNames(details.path_patterns[i]) :
            i \in 1..Len(details.path_patterns) }

\* C1: build_path is a function of the ordered templates and the tags: its
\* outcome is the outcome of the first template, in declared order, that is
\* not rejected (none when every template is rejected), never that of a later
\* one, and a repeated call with the same specification and tags has the
\* same outcome.
C1_FirstTemplateWins ==
  last.op = "build_path" =>
    LET R == NotRejected(last.strict, last.tags)
    IN /\ R = {} => last.ret = None
       /\ R # {} =>
            last.ret = TryPattern(details.path_patterns[SetMin(R)],
                                  last.strict, KeptTags(last.tags))
       /\ before.op = "build_path" => last.ret = before.ret

\* C1: a repeated call for which two templates resolve returned a path.
C1_Witness ==
  /\ last.op = "build_path"
  /\ before.op = "build_path"
  /\ last.ret.kind = "return"
  /\ Cardinality(NotRejected(last.strict, last.tags)) >= 2

\* The rebuilt path of validate_path's argument, in the given mode.
Rebuilt(strict) == build_path(details, strict, extract_tags(details, last.path))

\* C2 as stated: validate_path(path) is true exactly when
\* build_path(extract_tags(path), strict=false) equals path, and false when
\* the non-strict rebuild is a different string or none.
C2_NonStrictRoundTrip ==
  last.op = "validate_path" /\ last.ret.kind = "return" =>
    (last.ret.val <=> Rebuilt(FALSE) = Returned(last.path))

\* C2: validate_path(path) is true exactly when build_path(extract_tags(path))
\* in strict mode (build_path's default) equals path, false when the strict
\* rebuild is a different string or none, and raises when the rebuild raises.
C2_StrictRoundTrip ==
  last.op = "validate_path" =>
    /\ last.ret.kind \in {"return", "raise"}
    /\ last.ret.kind = "raise" <=> Rebuilt(TRUE).kind = "raise"
    /\ last.ret.kind = "return" =>
         (last.ret.val <=> Rebuilt(TRUE) = Returned(last.path))

\* C2: validate_path returned false for a path that its extracted tags
\* rebuild exactly in non-strict mode.
C2_Witness ==
  /\ last.op = "validate_path"
  /\ last.ret = Returned(FALSE)
  /\ Rebuilt(FALSE) = Returned(last.path)

\* The call of the documented scenario.
ScenarioCall ==
  /\ last.op = "build_path"
  /\ details = ScenarioDetails
  /\ last.tags = [subject |-> PyStr("01"), suffix |-> PyStr("T1w"),
                  extension |-> PyStr("nii.gz")]

\* C3 as stated: with the template sub-{subject}/sub-{subject}_{suffix}.{extension}
\* build_path for {subject: '01', suffix: 'T1w', extension: 'nii.gz'} returns
\* 'sub-01/sub-01_T1w.nii.gz'.
C3_SingleDot == ScenarioCall => last.ret = Returned("sub-01/sub-01_T1w.nii.gz")

\* C3: with that template and those tags build_path returns
\* 'sub-01/sub-01_T1w..nii.gz': the extension is normalised to '.nii.gz' and
\* substituted after the '.' the template writes.
C3_DoubleDot == ScenarioCall => last.ret = Returned("sub-01/sub-01_T1w..nii.gz")

\* C3: the call of the scenario returned a path.
C3_Witness == ScenarioCall /\ last.ret.kind = "return"

\* The resolved tag set (supplied or filled by default) of the template a
\* build_path call returned from.
ResolvedTags(pattern, tags) ==
  FillTokens(TagPatternFindall(pattern), 1, pattern, KeptTags(tags)).tags

\* C4 as stated: when build_path returns from a template that has the
\* optional segment [_ses-{session...}], the path contains '_ses-' and the
\* value of session if session is in the resolved tag set, and does not
\* contain 'ses-' otherwise.
C4_OptionalSegment ==
  /\ last.op = "build_path"
  /\ last.ret.kind = "return"
  /\ details \in {OptionalDetails, ValuedDetails}
  => LET used == details.path_patterns[
                   SetMin(NotRejected(last.strict, last.tags))]
         resolved == ResolvedTags(used, last.tags)
     IN IF "session" \in DOMAIN resolved
        THEN Contains(last.ret.val, "_ses-" \o resolved["session"].s)
        ELSE ~Contains(last.ret.val, "ses-")

\* C4: a path built from a template with an optional session segment, once
\* with the segment kept and once with it removed.
C4_Witness ==
  /\ last.op = "build_path"
  /\ last.ret.kind = "return"
  /\ details = OptionalDetails
  /\ "session" \in DOMAIN last.tags
  /\ Contains(last.ret.val, "_ses-02")

\* C5: in strict mode build_path uses a template only if every kept tag
\* name is referenced by a token of it and returns none when some kept tag
\* name is referenced by no template; the non-strict call with the same tags
\* has the outcome of the call without the unreferenced tags.
C5_StrictMode ==
  last.op = "build_path" =>
    LET kept == KeptTags(last.tags)
        R == NotRejected(last.strict, last.tags)
    IN /\ last.strict /\ R # {} =>
            DOMAIN kept \subseteq TokenNames(details.path_patterns[SetMin(R)])
       /\ last.strict /\ ~(DOMAIN kept \subseteq ReferencedNames) =>
            last.ret = None
       /\ ~last.strict =>
            last.ret = build_path(details, FALSE,
                         Restrict(last.tags,
                                  DOMAIN last.tags \cap ReferencedNames))

\* C5: a strict call with a tag no template refers to returned none, where
\* the non-strict call with the same tags returns a path.
C5_Witness ==
  /\ last.op = "build_path"
  /\ last.strict
  /\ "acq" \in DOMAIN last.tags
  /\ last.ret = None
  /\ build_path(details, FALSE, last.tags).kind = "return"

(***************************************************************************)
(* Properties of Layout.index and Layout.query (SpecLayout)                 *)
(***************************************************************************)

\* The files of a layout that carry, for every name of filters, one of the
\* values asked for.
Carrying(L, filters) ==
  { f \in FilesOf(L) :
      \A n \in DOMAIN filters :
        n \in DOMAIN file_tags[f] /\ file_tags[f][n].s \in filters[n] }

\* Every name of filters has exactly one value: (name, value) predicates.
SingleValued(filters) == \A n \in DOMAIN filters : Cardinality(filters[n]) = 1

\* C6: a query with a non-empty set of (name, value) predicates of distinct
\* names returns exactly the files of that layout that carry every pair.
C6_AndQuery ==
  /\ result.root # ""
  /\ DOMAIN result.filters # {}
  /\ SingleValued(result.filters)
  => result.files = Carrying(result.root, result.filters)

\* C6: a query with two predicates returned some files of the layout and
\* left out a file that carries only one of the pairs.
C6_Witness ==
  /\ result.root # ""
  /\ SingleValued(result.filters)
  /\ Cardinality(DOMAIN result.filters) = 2
  /\ result.files # {}
  /\ \E f \in FilesOf(result.root) \ result.files :
       \E n \in DOMAIN result.filters :
         n \in DOMAIN file_tags[f] /\ file_tags[f][n].s \in result.filters[n]

\* C7 as stated: a query with no predicates returns exactly the files whose
\* root is the layout's root.
C7_EmptyQueryAll ==
  result.root # "" /\ DOMAIN result.filters = {} =>
    result.files = FilesOf(result.root)

\* C7: a query with no predicates on a layout that holds files.
C7_Witness ==
  /\ result.root # ""
  /\ DOMAIN result.filters = {}
  /\ FilesOf(result.root) # {}

\* Some name of filters is given two different values.
TwoValues(filters) == \E n \in DOMAIN filters : Cardinality(filters[n]) >= 2

PassesValidation(L, f) ==
  validate_path(SpecificationOf(L), RelPath(f, L)) = Returned(TRUE)

\* C9 as stated: after any run of Layout.index every file of layout.files
\* passes validate_path.
C9_AcceptedFilesValid ==
  result = NoQuery => \A L \in Roots : \A f \in FilesOf(L) : PassesValidation(L, f)

\* C9: after runs of Layout.index that all had valid_only=True (the
\* default) on a layout, every file of layout.files passes validate_path.
C9_ValidOnlyFilesValid ==
  result = NoQuery =>
    \A L \in Roots :
      (\A n \in 1..Len(runs) : runs[n].root = L => runs[n].valid_only)
        => \A f \in FilesOf(L) : PassesValidation(L, f)

\* C9: a run with valid_only=True accepted files, and not every entry.
C9_Witness ==
  /\ Len(runs) = 1
  /\ runs[1].valid_only
  /\ FilesOf(runs[1].root) # {}
  /\ JoinPath(runs[1].root, "notes.txt") \notin FilesOf(runs[1].root)

(***************************************************************************)
(* Properties of look-up instantiation (SpecUnique)                         *)
(***************************************************************************)

\* The identity key of a construction.
KeyOf(c) == <<c.cls, GetIdentifiers(c.cls, c.kwargs)>>

\* C10: any two constructions with the same class and identity key return
\* the same instance, whatever was constructed in between.
C10_SameKeySameInstance ==
  \A i, j \in 1..Len(calls) :
    /\ calls[i].kind = "return"
    /\ calls[j].kind = "return"
    /\ KeyOf(calls[i]) = KeyOf(calls[j])
    => calls[i].val = calls[j].val

\* C10: the first and the third construction have the same key, with the
\* construction of another instance between them, on an index that does not
\* flush.
C10_Witness ==
  /\ read_only
  /\ Len(calls) = 3
  /\ calls[1].kind = "return"
  /\ calls[2].kind = "return"
  /\ calls[3].kind = "return"
  /\ KeyOf(calls[1]) = KeyOf(calls[3])
  /\ calls[2].val # calls[1].val

\* The construction made last.
LastCall(cs) == cs[Len(cs)]

\* A step that returns from a construction whose key is in the cache.
CachedConstruction ==
  /\ Len(calls') = Len(calls) + 1
  /\ LastCall(calls').kind = "return"
  /\ KeyOf(LastCall(calls')) \in DOMAIN cache

\* C11: a construction with an identity key already in the cache returns the
\* cached instance and discards the new one: the instances made before keep
\* their attributes, the cache is as it was, and the new instance is not
\* added to the index.
C11_CachedInstanceKept ==
  [][CachedConstruction =>
       /\ LastCall(calls').val = cache[KeyOf(LastCall(calls'))]
       /\ \A id \in 1..Len(heap) : heap'[id] = heap[id]
       /\ cache' = cache
       /\ Len(heap') \notin session']_vars

\* C11: two constructions of one Layout root with different specification
\* names returned the same instance, which has the attributes of the first.
C11_Witness ==
  /\ Len(calls) >= 2
  /\ calls[1].kind = "return"
  /\ calls[2].kind = "return"
  /\ KeyOf(calls[1]) = KeyOf(calls[2])
  /\ calls[1].kwargs # calls[2].kwargs
  /\ calls[2].val = calls[1].val
  /\ heap[calls[2].val].attrs = InitAttrs(calls[1].cls, calls[1].kwargs)

\* Some identity-defining field of the class is missing from the keywords of
\* construction c, or is None.
MissingIdentity(c) ==
  \E n \in 1..Len(IdentifierAttrs(c.cls)) :
    \/ IdentifierAttrs(c.cls)[n] \notin DOMAIN c.kwargs
    \/ c.kwargs[IdentifierAttrs(c.cls)[n]] = PyNone

\* A step that ends a construction made with positional arguments or
\* without every identity-defining field.
IncompleteConstruction ==
  /\ Len(calls') = Len(calls) + 1
  /\ LastCall(calls').args # <<>> \/ MissingIdentity(LastCall(calls'))

\* C12: a construction with positional arguments, or with an
\* identity-defining field missing or None, raises TypeError and leaves the
\* cache and the index as they were; no instance is initialised (the call
\* without any argument fails on the bare instance __new__ allocated).
C12_IncompleteIdentityFails ==
  [][IncompleteConstruction =>
       /\ LastCall(calls').kind = "raise"
       /\ cache' = cache
       /\ session' = session
       /\ rows' = rows
       /\ committed' = committed
       /\ \/ heap' = heap
          \/ /\ LastCall(calls').args = <<>>
             /\ LastCall(calls').kwargs = EmptyTags
             /\ heap' = Append(heap, [cls |-> LastCall(calls').cls,
                                      attrs |-> EmptyTags])]_vars

\* C12: after a construction that was cached and added to the index, one
\* with positional arguments and one with a None identity field raised.
C12_Witness ==
  /\ Len(calls) = 3
  /\ calls[1].kind = "return"
  /\ calls[2].kind = "raise"
  /\ calls[2].args # <<>>
  /\ calls[3].kind = "raise"
  /\ calls[3].args = <<>>
  /\ \E a \in DOMAIN calls[3].kwargs : calls[3].kwargs[a] = PyNone
  /\ DOMAIN cache = {KeyOf(calls[1])}
  /\ session = {calls[1].val}
  /\ Len(heap) = 1

(***************************************************************************)
(* Further properties of build_path and extract_tags (SpecPath)             *)
(***************************************************************************)

\* C13 as stated: build_path never raises, and returns none when no template
\* resolves for the tags.
C13_NoneNeverRaises ==
  last.op = "build_path" =>
    /\ last.ret.kind # "raise"
    /\ NotRejected(last.strict, last.tags) = {} => last.ret = None

\* C13: a build_path call for which the templates before the last are
\* rejected ended with an exception.
C13_Witness ==
  /\ last.op = "build_path"
  /\ details = ValuedDetails
  /\ last.ret = Raised("ValueError")

\* The template a build_path call returned from.
UsedPattern == details.path_patterns[SetMin(NotRejected(last.strict, last.tags))]

\* Token m declares valid values and the kept tags have a value for its tag
\* that is not one of them.
InvalidValue(m, kept) ==
  /\ m.valid_vals # ""
  /\ m.name \in DOMAIN kept
  /\ ~InList(kept[m.name], Split(m.valid_vals, "|"))

\* C14 as stated: build_path builds no path from a template with a token
\* that declares valid values when the value supplied for the token's tag is
\* not in the list, wherever the token sits in the template.
C14_InvalidValueRejects ==
  last.op = "build_path" /\ last.ret.kind = "return" =>
    \A m \in SeqRange(TagPatternFindall(UsedPattern)) :
      ~InvalidValue(m, KeptTags(last.tags))

\* C14: build_path returned a path from a template whose optional segment
\* has a token with valid values 01 and 02, for session 03.
C14_Witness ==
  /\ last.op = "build_path"
  /\ details = ValuedDetails
  /\ "session" \in DOMAIN last.tags
  /\ last.tags["session"] = PyStr("03")
  /\ last.ret = Returned("sub-01_T1w.nii.gz")

\* Token m has a default that its valid-value list, if it declares one,
\* contains, and the kept tags have no value for its tag.
DefaultApplies(m, kept) ==
  /\ m.default # ""
  /\ m.valid_vals = "" \/ m.default \in SeqRange(Split(m.valid_vals, "|"))
  /\ m.name \notin DOMAIN kept

\* C15 as stated: when the caller supplied no value for the tag of a token
\* with a default, declared with or without valid values, the template is
\* evaluated with the default as the tag's value: the evaluation does not
\* raise and the resolved tags map the tag to the default.
C15_DefaultUsed ==
  last.op = "build_path" =>
    \A i \in 1..Len(details.path_patterns) :
      \A m \in SeqRange(TagPatternFindall(details.path_patterns[i])) :
        /\ DefaultApplies(m, KeptTags(last.tags))
        /\ ~StrictReject(last.strict, KeptTags(last.tags),
                         TagPatternFindall(details.path_patterns[i]))
        => /\ TryPattern(details.path_patterns[i], last.strict,
                         KeptTags(last.tags)).kind # "raise"
           /\ m.name \in DOMAIN ResolvedTags(details.path_patterns[i], last.tags)
           /\ ResolvedTags(details.path_patterns[i], last.tags)[m.name]
                = PyStr(m.default)

\* C15: a strict call without a session reached the template whose token
\* {session|01} has a default and no valid values, and raised.
C15_Witness ==
  /\ last.op = "build_path"
  /\ last.strict
  /\ details = ValuedDetails
  /\ DOMAIN last.tags = {"subject"}
  /\ last.ret.kind = "raise"

\* Token m declares valid values and a default that is not one of them.
InconsistentDefault(m) ==
  /\ m.default # ""
  /\ m.valid_vals # ""
  /\ m.default \notin SeqRange(Split(m.valid_vals, "|"))

\* C16 as stated: a token whose default is not in its declared valid-value
\* list is not fatal: the evaluation of its template does not raise, and
\* when the tag is not supplied the default is the tag's value.
C16_InconsistentDefaultWarns ==
  last.op = "build_path" =>
    \A i \in 1..Len(details.path_patterns) :
      \A m \in SeqRange(TagPatternFindall(details.path_patterns[i])) :
        /\ InconsistentDefault(m)
        /\ ~StrictReject(last.strict, KeptTags(last.tags),
                         TagPatternFindall(details.path_patterns[i]))
        => /\ TryPattern(details.path_patterns[i], last.strict,
                         KeptTags(last.tags)).kind # "raise"
           /\ m.name \notin DOMAIN KeptTags(last.tags) =>
                ResolvedTags(details.path_patterns[i], last.tags)[m.name]
                  = PyStr(m.default)

\* C16: a call on the template with the token {session<01|02>|03}, with a
\* valid session supplied, raised.
C16_Witness ==
  /\ last.op = "build_path"
  /\ details = InconsistentDetails
  /\ "session" \in DOMAIN last.tags
  /\ last.tags["session"] = PyStr("02")
  /\ last.ret = Raised("ValueError")

\* The template as the placeholder-resolution step finds it: tokens
\* simplified, optional segments kept or removed.
SimplifiedPath(pattern, tags) ==
  KeepOrRemoveOptional(
    OptionalPatterns(
      FillTokens(TagPatternFindall(pattern), 1, pattern, KeptTags(tags)).path),
    1,
    FillTokens(TagPatternFindall(pattern), 1, pattern, KeptTags(tags)).path,
    ResolvedTags(pattern, tags)).path

\* The placeholders of a simplified template.
Placeholders(path) ==
  { FormatterParse(path).items[n].field :
      n \in { k \in 1..Len(FormatterParse(path).items) :
                FormatterParse(path).items[k].has } }

\* C17 as stated: a template that reaches the placeholder-resolution step
\* with every remaining placeholder resolved is substituted and returned,
\* whether it ends with a placeholder or with literal text.
C17_ResolvedTemplateReturned ==
  last.op = "build_path" =>
    \A i \in 1..Len(details.path_patterns) :
      /\ ~StrictReject(last.strict, KeptTags(last.tags),
                       TagPatternFindall(details.path_patterns[i]))
      /\ TryPattern(details.path_patterns[i], last.strict,
                    KeptTags(last.tags)).kind # "raise"
      /\ Placeholders(SimplifiedPath(details.path_patterns[i], last.tags))
           \subseteq DOMAIN ResolvedTags(details.path_patterns[i], last.tags)
      => TryPattern(details.path_patterns[i], last.strict,
                    KeptTags(last.tags)).kind = "return"

\* C17: with subject and suffix supplied, the template that ends with
\* ".json" was passed over and the path came from the template after it.
C17_Witness ==
  /\ last.op = "build_path"
  /\ details = LiteralDetails
  /\ DOMAIN last.tags = {"subject", "suffix"}
  /\ last.ret = Returned("sub-01_T1w")

\* The definitions of tag name, by position, whose pattern matches path.
MatchingDefinitions(name, path) ==
  { i \in 1..Len(details.tags) :
      /\ details.tags[i].name = name
      /\ ReFirst(details.tags[i].pattern, path).ok }

\* C18 as stated: when several definitions of a tag name match the path,
\* extract_tags reports the value of the earliest of them in declared order.
C18_FirstDefinitionWins ==
  last.op = "extract_tags" =>
    \A name \in DOMAIN last.ret.val :
      last.ret.val[name] =
        PyStr(ReFirst(details.tags[SetMin(MatchingDefinitions(name, last.path))]
                        .pattern, last.path).val)

\* C18: both definitions of session match the path, with different values,
\* and extract_tags reported the value of the later one.
C18_Witness ==
  /\ last.op = "extract_tags"
  /\ details = DuplicateDetails
  /\ Cardinality(MatchingDefinitions("session", last.path)) = 2
  /\ last.ret.val["session"] =
       PyStr(ReFirst(details.tags[3].pattern, last.path).val)
  /\ ReFirst(details.tags[3].pattern, last.path).val
       # ReFirst(details.tags[2].pattern, last.path).val

\* The matches of a definition's pattern in s, as <<start, end of the
\* capture>>: pre at start, then the capture, gpre and a non-empty run of
\* cls, then post, at the end of s if the pattern is anchored.
MatchesOf(pat, s) ==
  { m \in (1..Len(s)) \X (1..Len(s)) :
      /\ StartsWithAt(s, m[1], pat.pre)
      /\ StartsWithAt(s, m[1] + Len(pat.pre), pat.gpre)
      /\ m[1] + Len(pat.pre) + Len(pat.gpre) <= m[2]
      /\ \A k \in (m[1] + Len(pat.pre) + Len(pat.gpre))..m[2] :
           Ch(s, k) \in pat.cls
      /\ StartsWithAt(s, m[2] + 1, pat.post)
      /\ pat.anchored => m[2] + Len(pat.post) = Len(s) }

\* The capture of the leftmost match, the longest if several start there.
LeftmostCapture(pat, s) ==
  SubSeq(s,
         SetMin({ m[1] : m \in MatchesOf(pat, s) }) + Len(pat.pre),
         SetMax({ m[2] : m \in { x \in MatchesOf(pat, s) :
                     x[1] = SetMin({ y[1] : y \in MatchesOf(pat, s) }) } }))

\* C19: extract_tags returns, without raising, an entry for a tag exactly
\* when the pattern of a definition of it matches somewhere in the path, and
\* the value of a definition's entry (of the last matching one, if several
\* share the name) is the capture of its leftmost match.
C19_LeftmostMatchOnly ==
  last.op = "extract_tags" =>
    /\ last.ret.kind = "return"
    /\ DOMAIN last.ret.val =
         { details.tags[i].name :
             i \in { k \in 1..Len(details.tags) :
                       MatchesOf(details.tags[k].pattern, last.path) # {} } }
    /\ \A i \in 1..Len(details.tags) :
         /\ MatchesOf(details.tags[i].pattern, last.path) # {}
         /\ \A j \in (i + 1)..Len(details.tags) :
              details.tags[j].name = details.tags[i].name =>
                MatchesOf(details.tags[j].pattern, last.path) = {}
         => last.ret.val[details.tags[i].name] =
              PyStr(LeftmostCapture(details.tags[i].pattern, last.path))

\* C19: the pattern of subject matches the path at two places with
\* different captures, the pattern of session matches nowhere, and
\* extract_tags returned the first capture of subject and no session.
C19_Witness ==
  /\ last.op = "extract_tags"
  /\ details = OptionalDetails
  /\ \E m, n \in MatchesOf(SubjectDef.pattern, last.path) :
       /\ m[1] < n[1]
       /\ SubSeq(last.path, m[1] + 4, m[2]) # SubSeq(last.path, n[1] + 4, n[2])
       /\ last.ret.val["subject"] = PyStr(SubSeq(last.path, m[1] + 4, m[2]))
  /\ "session" \notin DOMAIN last.ret.val

\* The tags without the entries whose value is the empty string or None.
Supplied(tags) ==
  Restrict(tags, { k \in DOMAIN tags : tags[k] \notin {PyStr(""), PyNone} })

\* The tags with the text "0" in the place of every numeric zero.
ZeroAsText(tags) ==
  [k \in DOMAIN tags |-> IF tags[k] = PyInt("0") THEN PyStr("0") ELSE tags[k]]

\* C20: build_path has the outcome of the call without the tags whose value
\* is empty or None, in either mode, and a numeric zero counts as a
\* supplied value that is written as "0".
C20_FalsyDroppedZeroKept ==
  last.op = "build_path" =>
    last.ret = build_path(details, last.strict, ZeroAsText(Supplied(last.tags)))

\* C20: a strict call with session 0 and a None value for a tag no template
\* refers to returned a path with the session segment "_ses-0".
C20_Witness ==
  /\ last.op = "build_path"
  /\ last.strict
  /\ details = OptionalDetails
  /\ "session" \in DOMAIN last.tags
  /\ last.tags["session"] = PyInt("0")
  /\ "acq" \in DOMAIN last.tags
  /\ last.tags["acq"] = PyNone
  /\ last.ret = Returned("sub-01/sub-01_ses-0_T1w.nii.gz")

(***************************************************************************)
(* Properties of re-indexing (SpecLayout)                                   *)
(***************************************************************************)

\* The entries os.scandir yields for a directory, as paths.
EntriesOf(L, dir) ==
  {JoinPath(dir, Scandir(L, dir)[i]) : i \in 1..Len(Scandir(L, dir))}

\* The directories a traversal of layout L descends into: the entries of
\* the root that are directories and, under valid_only, fail validate_path.
Descended(L, valid_only) ==
  {d \in EntriesOf(L, L) :
     valid_only /\ IsDir(L, d) /\ ~PassesValidation(L, d)}

\* The entries a traversal of layout L visits, at every depth.
Visited(L, valid_only) ==
  EntriesOf(L, L) \cup UNION {EntriesOf(L, d) : d \in Descended(L, valid_only)}

\* The entries a traversal of layout L accepts: the visited entries, under
\* valid_only those that pass validate_path.
Accepted(L, valid_only) ==
  {p \in Visited(L, valid_only) : valid_only => PassesValidation(L, p)}

\* C21 as stated: when Layout.index(reset=True) returns, layout.files holds
\* exactly the entries accepted during that traversal, at every directory
\* depth, and none of the files held before.
C21_ResetClearsOnce ==
  (result = NoQuery /\ runs # <<>> /\ LastCall(runs).reset)
    => FilesOf(LastCall(runs).root)
         = Accepted(LastCall(runs).root, LastCall(runs).valid_only)

\* C21: a run with reset=True accepted entries in two directories and
\* layout.files holds those of one directory only.
C21_Witness ==
  /\ runs # <<>>
  /\ LastCall(runs).reset
  /\ LastCall(runs).valid_only
  /\ \E p \in Accepted(LastCall(runs).root, TRUE) :
       p \notin FilesOf(LastCall(runs).root)
  /\ FilesOf(LastCall(runs).root) # {}

\* All contents under the root of layout L: the entries of the root and of
\* each directory under it.
AllContents(L) ==
  EntriesOf(L, L)
    \cup UNION {EntriesOf(L, d) : d \in {e \in EntriesOf(L, L) : IsDir(L, e)}}

\* C26 as stated: after Layout.index(valid_only=False) the layout holds all
\* contents under its root, at every directory depth, whether or not their
\* paths abide by the specification.
C26_AllDepthsAdded ==
  (result = NoQuery /\ runs # <<>> /\ ~LastCall(runs).valid_only)
    => AllContents(LastCall(runs).root) \subseteq FilesOf(LastCall(runs).root)

\* C26: a run with valid_only=False added an entry of the root that fails
\* validation and left out a file one directory down.
C26_Witness ==
  /\ runs # <<>>
  /\ ~LastCall(runs).valid_only
  /\ JoinPath(LastCall(runs).root, "notes.txt") \in FilesOf(LastCall(runs).root)
  /\ ~PassesValidation(LastCall(runs).root,
                       JoinPath(LastCall(runs).root, "notes.txt"))
  /\ \E p \in AllContents(LastCall(runs).root) :
       p \notin FilesOf(LastCall(runs).root)

(***************************************************************************)
(* Properties of the template loop (SpecPath)                               *)
(***************************************************************************)

\* The specification without the templates that, evaluated on their own
\* against the kept tags, are rejected.
WithoutRejected(strict, tags) ==
  [details EXCEPT !.path_patterns =
     [n \in 1..Cardinality(NotRejected(strict, tags)) |->
        details.path_patterns[
          CHOOSE i \in NotRejected(strict, tags) :
            Cardinality({k \in NotRejected(strict, tags) : k <= i}) = n]]]

\* C29: each template is evaluated against the same filtered,
\* extension-normalised tags: the templates rejected on the way leave nothing
\* behind, so the outcome of build_path is its outcome on the specification
\* without them; and the call leaves the specification's templates and the
\* mapping the caller holds as they were, so that the same call made again
\* is the same call.
C29_RejectedLeaveNoTrace ==
  last.op = "build_path" =>
    /\ last.ret = build_path(WithoutRejected(last.strict, last.tags),
                             last.strict, last.tags)
    /\ details \in SeqRange(Specifications)
    /\ before.op = "build_path" =>
         last.tags = before.tags /\ last.ret = before.ret

\* C29: a strict call whose first template filled in the default of suffix
\* and was rejected for the missing extension returned the path of the
\* second template, which has no suffix token.
C29_Witness ==
  /\ last.op = "build_path"
  /\ last.strict
  /\ details = ValuedDetails
  /\ "suffix" \notin DOMAIN last.tags
  /\ "suffix" \in DOMAIN TagsCopyAfter(details.path_patterns[1], last.strict,
                                       KeptTags(last.tags))
  /\ 1 \notin NotRejected(last.strict, last.tags)
  /\ last.ret = Returned("sub-01")

(***************************************************************************)
(* Properties of malformed tag definitions (SpecCompile)                    *)
(***************************************************************************)

\* Some tag definition of the details has a pattern text that does not
\* compile.
Malformed(d) == \E n \in 1..Len(d.tags) : ~Compiles(d.tags[n].regex)

\* C24 as stated: no Specification is constructed from details with a
\* malformed regular expression, and no extract_tags or validate_path call
\* is the first to detect one.
C24_MalformedFailsAtConstruction ==
  /\ ~Malformed(details)
  /\ last.op \in {"extract_tags", "validate_path"} =>
       last.ret # Raised("re.error")

\* C24: the construction from details with a malformed pattern returned, and
\* the extract_tags call that followed raised re.error.
C24_Witness ==
  /\ before.op = "__init__"
  /\ before.ret = None
  /\ Malformed(details)
  /\ last.op = "extract_tags"
  /\ last.ret = Raised("re.error")

(***************************************************************************)
(* Properties of Indexer.add (SpecUnique)                                   *)
(***************************************************************************)

\* Indexer.get(cls, **identifiers) finds the object: its row is in the
\* database of the session.
Retrievable(obj) == obj \in rows

\* The objects of the add calls that hit no integrity error, on an index
\* that flushes.
AddedWithoutError ==
  { calls[i].val : i \in { n \in 1..Len(calls) : /\ calls[n].kind = "return"
                                                  /\ ~calls[n].integrity } }

\* C30 as stated: Indexer.add never propagates an integrity violation, and
\* after any sequence of add calls every object of a call that hit no
\* integrity error is retrievable through Indexer.get.
C30_FailedAddKeepsEarlier ==
  /\ \A i \in 1..Len(calls) : calls[i].integrity => calls[i].kind = "return"
  /\ ~read_only => \A obj \in AddedWithoutError : Retrievable(obj)

\* C30: an add that hit no integrity error was followed by the add of
\* another object that hit one and returned, and the first object is no
\* longer retrievable.
C30_Witness ==
  /\ ~read_only
  /\ Len(calls) = 2
  /\ calls[1].kind = "return" /\ ~calls[1].integrity
  /\ calls[2].kind = "return" /\ calls[2].integrity
  /\ calls[1].val # calls[2].val
  /\ ~Retrievable(calls[1].val)

(***************************************************************************)
(* Properties of Layout.add (SpecAdd)                                       *)
(***************************************************************************)

\* The path lies under the root directory.
Under(path, root) == StartsWith(path, root \o "/")

\* C22 as stated: a Layout.add call given any file outside the layout's
\* root raises and adds none of its files, so every file of layout.files
\* lies under layout.root.
C22_FilesWithinScope ==
  /\ \A i \in 1..Len(adds) :
       (\E n \in 1..Len(adds[i].paths) : ~Under(adds[i].paths[n], adds[i].root))
         => adds[i].ret.kind = "raise"
  /\ \A L \in Roots : \A f \in FilesOf(L) : Under(f, L)

\* C22: an add call given a file under the root and a file outside it
\* returned, and the file outside the root is in layout.files.
C22_Witness ==
  /\ Len(adds) = 1
  /\ adds[1].ret = None
  /\ adds[1].root = "/a"
  /\ adds[1].paths = <<"/a/f.txt", "/b/g.txt">>
  /\ "/b/g.txt" \in FilesOf("/a")

(***************************************************************************)
(* Properties of re-tagging (SpecTag)                                       *)
(***************************************************************************)

\* The File.index calls with tag functions made on the File at f.
RetagsOf(f) == { i \in 1..Len(retags) : retags[i].path = f }

\* The tags last written to the File at f of layout L: those of the last
\* File.index call with a tag function on it, or else those the layout's
\* index wrote.
LastWritten(L, f) ==
  IF RetagsOf(f) = {}
  THEN extract_tags(SpecificationOf(L), RelPath(f, L))
  ELSE Written(L, f, retags[SetMax(RetagsOf(f))].name
                       :> PyStr(retags[SetMax(RetagsOf(f))].value))

\* C23 as stated: re-tagging returns, every File's tag map holds for each
\* name the value last written to that File (last write wins), and a query
\* on a name matches exactly the Files whose last written value for the
\* name is the one asked for.
C23_LastWriteWins ==
  /\ \A i \in 1..Len(retags) : retags[i].ret = None
  /\ \A L \in Roots : \A f \in FilesOf(L) : file_tags[f] = LastWritten(L, f)
  /\ result # NoQuery =>
       result.files =
         { f \in FilesOf(result.root) :
             \A n \in DOMAIN result.filters :
               /\ n \in DOMAIN LastWritten(result.root, f)
               /\ LastWritten(result.root, f)[n].s \in result.filters[n] }

\* C23: the suffix of one File was re-tagged from T1w to dwi; another File,
\* never re-tagged and last written with suffix T1w, holds dwi as well, and
\* the query for suffix T1w does not return it.
C23_Witness ==
  /\ Len(retags) = 1
  /\ retags[1].ret = None
  /\ retags[1].name = "suffix"
  /\ retags[1].value = "dwi"
  /\ \E g \in FilesOf(retags[1].root) :
       /\ g # retags[1].path
       /\ LastWritten(retags[1].root, g)["suffix"] = PyStr("T1w")
       /\ file_tags[g]["suffix"] = PyStr("dwi")
       /\ result.root = retags[1].root
       /\ result.filters = ("suffix" :> {"T1w"})
       /\ g \notin result.files

(***************************************************************************)
(* Properties of get_tag_values (SpecValues)                                *)
(***************************************************************************)

\* The File at f satisfies every filter: it has each filtered tag with the
\* value asked for.
Satisfies(f, filters) ==
  \A k \in DOMAIN filters :
    k \in DOMAIN file_tags[f] /\ file_tags[f][k].s = filters[k]

\* The values of tag name carried by the files of layout L that satisfy
\* every filter.
CarriedValues(L, name, filters) ==
  { file_tags[f][name].s :
      f \in { g \in FilesOf(L) : /\ name \in DOMAIN file_tags[g]
                                 /\ Satisfies(g, filters) } }

\* C27: get_tag_values(name, **filters) returns exactly the distinct values
\* of tag name carried by the files of the layout that satisfy every filter
\* (all its files without filters), each value once, and no value of a file
\* outside the layout or failing a filter.
C27_DistinctValuesOfMatching ==
  values # NoValues =>
    /\ DOMAIN values.values = CarriedValues(values.root, values.name,
                                            values.filters)
    /\ \A v \in DOMAIN values.values : values.values[v] = 1

\* C27: with both layouts indexed, a call with a filter returned the one
\* value that the two matching files of the layout carry, while a file of
\* the layout that fails the filter carries another value.
C27_Witness ==
  /\ Len(runs) = 2
  /\ values.root = "/a"
  /\ values.name = "subject"
  /\ values.filters = ("suffix" :> "T1w")
  /\ DOMAIN values.values = {"01"}
  /\ Cardinality({ f \in FilesOf("/a") : Satisfies(f, values.filters) }) = 2
  /\ \E g \in FilesOf("/a") : file_tags[g]["subject"].s = "02"

(***************************************************************************)
(* Properties of Dataset.add (SpecDataset)                                  *)
(***************************************************************************)

\* Dataset d is reachable from itself through its components.
OnCycle(d) == \E c \in ComponentsOf(d) : Reaches(c, d, Cardinality(Datasets))

\* C25 as stated: after any sequence of Dataset.add calls no dataset is
\* reachable from itself through its components.
C25_NoDatasetIncludesItself == \A d \in Datasets : ~OnCycle(d)

\* C25: three add calls that each returned made A a component of C, C of B
\* and B of A.
C25_Witness ==
  /\ Len(dataset_adds) = 3
  /\ \A i \in 1..3 : dataset_adds[i].ret = None
  /\ "B" \in ComponentsOf("A")
  /\ "C" \in ComponentsOf("B")
  /\ "A" \in ComponentsOf("C")
  /\ OnCycle("A")

(***************************************************************************)
(* Properties of Specification.organize (SpecOrganize)                      *)
(***************************************************************************)

\* Call c copied src to dst, or kept the dst that existed with an error log.
Handled(c, src, dst) ==
  \/ \E n \in 1..Len(c.copies) : c.copies[n] = [src |-> src, dst |-> dst]
  \/ \E n \in 1..Len(c.errors) :
       c.errors[n] = [src |-> src, dst |-> dst, why |-> "exists"]

\* Call c skipped src with an error log for want of a path.
Skipped(c, src) ==
  \E n \in 1..Len(c.errors) :
    c.errors[n] = [src |-> src, dst |-> "", why |-> "no path"]

\* Call c processed src with tags t as the claim has it: copied to
\* destination/build_path(t) if the path can be built, skipped with an
\* error log if build_path yields no path.
Processed(c, src, t) ==
  /\ build_path(details, StrictDefault, t).kind = "return"
       => Handled(c, src, JoinPath(Destination,
                                   build_path(details, StrictDefault, t).val))
  /\ build_path(details, StrictDefault, t).kind # "return" => Skipped(c, src)

\* C28 as stated: every organize call returns having processed every
\* matched file on its own, and with copy_fellows every non-directory
\* sibling of a copied file under the file's tags and its own extension.
C28_EveryMatchProcessed ==
  \A k \in 1..Len(organized) :
    /\ organized[k].ret = None
    /\ \A file \in SeqRange(GetDirContents(organized[k].order, 1)) :
         /\ Processed(organized[k], file, TagsOfFile(file))
         /\ ( /\ organized[k].copy_fellows
              /\ build_path(details, StrictDefault, TagsOfFile(file)).kind
                   = "return" )
            => \A fellow \in SeqRange(Fellows(organized[k].order, file)) :
                 Processed(organized[k], fellow,
                           SetItem(TagsOfFile(file), "extension",
                                   PyStr(Splitext(fellow))))

\* C28: an organize call copied one matched file, raised ValueError on the
\* next, and left a later matched file neither copied nor logged.
C28_Witness ==
  /\ Len(organized) = 1
  /\ organized[1].ret = Raised("ValueError")
  /\ Len(organized[1].copies) > 0
  /\ \E file \in SeqRange(GetDirContents(organized[1].order, 1)) :
       /\ \A n \in 1..Len(organized[1].copies) :
            organized[1].copies[n].src # file
       /\ \A n \in 1..Len(organized[1].errors) :
            organized[1].errors[n].src # file
       /\ file # "/raw/sub02_rec.eeg"

====
